---- MODULE Spec2Model ----
(***************************************************************************)
(* A model of MemoChater's pipeline engine: the conversation packet, the   *)
(* phase dispatcher, the built-in processors and the turn orchestration of *)
(* the OpenAI-compatible chat endpoint (src/memo-chater/src/api.rs).       *)
(*                                                                         *)
(* Text is modelled as a sequence of characters (one-character strings);   *)
(* fixed pieces of template text are kept as single multi-character        *)
(* tokens.  A turn is an asynchronous task: each action below is the code  *)
(* between two suspension points (.await / yield) of that task.            *)
(***************************************************************************)
EXTENDS Integers, Sequences, FiniteSets, TLC

\* ------------------------------------------------------------------ bounds
\* number of chat requests (turns) that arrive
MaxTurns == 2
\* largest chunk set the processor model returns to ContentChunker
MaxChunks == 1
\* distinct millisecond clock readings ContentChunker can observe
MaxClock == 1

TurnIds == 1..MaxTurns

\* ------------------------------------------------------------------- text
StartsWith(s, p) == Len(s) >= Len(p) /\ SubSeq(s, 1, Len(p)) = p

EndsWith(s, p) == Len(s) >= Len(p) /\ SubSeq(s, Len(s) - Len(p) + 1, Len(s)) = p

RECURSIVE Concat(_)
Concat(ss) == IF ss = <<>> THEN <<>> ELSE Head(ss) \o Concat(Tail(ss))

\* the elements of s from index i on that are not at the positions left
\* out, in their order
RECURSIVE Without(_, _, _)
Without(s, i, out) ==
    IF i > Len(s) THEN <<>>
    ELSE (IF i \in out THEN <<>> ELSE <<s[i]>>) \o Without(s, i + 1, out)

Whitespace == {" ", "\n"}

RECURSIVE TrimStart(_)
TrimStart(s) == IF s # <<>> /\ Head(s) \in Whitespace THEN TrimStart(Tail(s)) ELSE s

RECURSIVE TrimEnd(_)
TrimEnd(s) ==
    IF s # <<>> /\ s[Len(s)] \in Whitespace THEN TrimEnd(SubSeq(s, 1, Len(s) - 1)) ELSE s

Trim(s) == TrimEnd(TrimStart(s))

ThinkOpen == <<"<", "t", "h", "i", "n", "k">>
ThinkClose == <<"<", "/", "t", "h", "i", "n", "k", ">">>
ThinkingClose == <<"<", "/", "t", "h", "i", "n", "k", "i", "n", "g", ">">>

\* first index >= i at which s holds c, or 0
RECURSIVE FindChar(_, _, _)
FindChar(s, i, c) ==
    IF i > Len(s) THEN 0 ELSE IF s[i] = c THEN i ELSE FindChar(s, i + 1, c)

\* last index of the earliest closing tag that starts at or after i, or 0
RECURSIVE FindClose(_, _)
FindClose(s, i) ==
    IF i > Len(s) THEN 0
    ELSE IF StartsWith(SubSeq(s, i, Len(s)), ThinkClose) THEN i + Len(ThinkClose) - 1
    ELSE IF StartsWith(SubSeq(s, i, Len(s)), ThinkingClose) THEN i + Len(ThinkingClose) - 1
    ELSE FindClose(s, i + 1)

\* THINKING_TAG_REGEX = (?s)<think(?:ing)?[^>]*>.*?</think(?:ing)?> matched at i:
\* the index of the last matched character, or 0 when there is no match at i
ThinkingTagMatchEnd(s, i) ==
    IF ~StartsWith(SubSeq(s, i, Len(s)), ThinkOpen) THEN 0
    ELSE LET gt == FindChar(s, i + Len(ThinkOpen), ">")
         IN  IF gt = 0 THEN 0 ELSE FindClose(s, gt + 1)

RECURSIVE ReplaceAllThinking(_, _)
ReplaceAllThinking(s, i) ==
    IF i > Len(s) THEN <<>>
    ELSE LET e == ThinkingTagMatchEnd(s, i)
         IN  IF e # 0 THEN ReplaceAllThinking(s, e + 1)
             ELSE <<s[i]>> \o ReplaceAllThinking(s, i + 1)

strip_thinking_tags(content) == Trim(ReplaceAllThinking(content, 1))

\* The character filter inside the stream of chat_stream_with_model, on one
\* character: the filter state after it and what it yields (no string or
\* one).
FilterChar(in_thinking_tag, tag_buffer, ch) ==
    LET b == Append(tag_buffer, ch)
        st(in, buf, out) == [in_thinking_tag |-> in, tag_buffer |-> buf, yielded |-> out]
    IN  IF ch = "<" THEN st(in_thinking_tag, <<ch>>, <<>>)
        ELSE IF tag_buffer # <<>> THEN
             IF StartsWith(b, ThinkOpen) /\ ch = ">" THEN st(TRUE, <<>>, <<>>)
             ELSE IF in_thinking_tag /\ EndsWith(b, ThinkClose) THEN st(FALSE, <<>>, <<>>)
             ELSE IF in_thinking_tag /\ EndsWith(b, ThinkingClose) THEN st(FALSE, <<>>, <<>>)
             ELSE IF ~in_thinking_tag /\ ~StartsWith(b, ThinkOpen) /\ ch = ">"
                 THEN st(in_thinking_tag, <<>>, <<b>>)
             ELSE st(in_thinking_tag, b, <<>>)
        ELSE IF ~in_thinking_tag THEN st(in_thinking_tag, tag_buffer, <<(<<ch>>)>>)
        ELSE st(in_thinking_tag, tag_buffer, <<>>)

\* the list of strings the filter yields for the characters s[i..], from
\* filter state (in_thinking_tag, tag_buffer)
RECURSIVE StreamFilter(_, _, _, _)
StreamFilter(s, i, in_thinking_tag, tag_buffer) ==
    IF i > Len(s) THEN <<>>
    ELSE LET st == FilterChar(in_thinking_tag, tag_buffer, s[i])
         IN  st.yielded \o StreamFilter(s, i + 1, st.in_thinking_tag, st.tag_buffer)

chat_stream_with_model(output) == StreamFilter(output, 1, FALSE, <<>>)

\* ----------------------------------------------------------- ChatMessage
ChatMessage(role, content) == [role |-> role, content |-> content]

\* Option<T> as a sequence of length 0 or 1
None == <<>>
Some(x) == <<x>>

\* the literal "[" U+9519 U+8BEF "]" that prefixes user-visible errors
ErrorPrefix == "[error]"

\* -------------------------------------------------- ConversationPacket
NoStates == [n \in {} |-> ""]

NewPacket ==
    [ messages              |-> <<>>,
      thinking_pool         |-> <<>>,
      short_term_memory     |-> <<>>,
      current_states        |-> NoStates,
      history_states        |-> <<>>,
      conversation_turns    |-> <<>>,
      last_processor        |-> None,
      user_input            |-> <<>>,
      ai_response           |-> None,
      last_request_messages |-> <<>> ]

append_user_message(p, content) ==
    [p EXCEPT !.messages = Append(@, ChatMessage("user", content)),
              !.user_input = content]

append_assistant_message(p, content) ==
    [p EXCEPT !.messages = Append(@, ChatMessage("assistant", content)),
              !.ai_response = Some(content)]

save_conversation_turn(p) ==
    IF p.user_input # <<>> /\ p.ai_response # None
    THEN [p EXCEPT !.conversation_turns =
              Append(@, [user_message |-> p.user_input,
                         assistant_message |-> p.ai_response[1]])]
    ELSE p

set_system_message(p, content) ==
    IF p.messages # <<>> /\ p.messages[1].role = "system"
    THEN [p EXCEPT !.messages[1].content = content]
    ELSE [p EXCEPT !.messages = <<ChatMessage("system", content)>> \o @]

add_thinking(p, content, source) ==
    [p EXCEPT !.thinking_pool = Append(@, [content |-> content, source |-> source])]

add_short_term_memory(p, memory) ==
    [p EXCEPT !.short_term_memory = Append(@, memory)]

set_processor_state(p, name, state) ==
    [p EXCEPT !.current_states =
        [n \in (DOMAIN @) \cup {name} |-> IF n = name THEN state ELSE @[n]]]

\* end_turn without the loop that pops the oldest frames
end_turn_unbounded(p) ==
    [p EXCEPT !.history_states = IF DOMAIN p.current_states # {}
                                 THEN <<p.current_states>> \o @ ELSE @,
              !.current_states = NoStates,
              !.last_processor = None,
              !.user_input = <<>>,
              !.ai_response = None]

\* end_turn that clears the pools with the per-turn fields
end_turn_clearing_pools(p) ==
    LET pushed == IF DOMAIN p.current_states # {}
                  THEN <<p.current_states>> \o p.history_states
                  ELSE p.history_states
        kept   == IF Len(pushed) > 2 THEN SubSeq(pushed, 1, 2) ELSE pushed
    IN  [p EXCEPT !.history_states = kept,
                  !.current_states = NoStates,
                  !.last_processor = None,
                  !.user_input = <<>>,
                  !.ai_response = None,
                  !.thinking_pool = <<>>]

end_turn(p) ==
    LET pushed == IF DOMAIN p.current_states # {}
                  THEN <<p.current_states>> \o p.history_states
                  ELSE p.history_states
        kept   == IF Len(pushed) > 2 THEN SubSeq(pushed, 1, 2) ELSE pushed
    IN  [p EXCEPT !.history_states = kept,
                  !.current_states = NoStates,
                  !.last_processor = None,
                  !.user_input = <<>>,
                  !.ai_response = None]

\* the state `name` stored in the most recent frame of history_states
get_previous_state(p, name) ==
    IF p.history_states = <<>> THEN None
    ELSE IF name \in DOMAIN Head(p.history_states)
         THEN Some(Head(p.history_states)[name])
         ELSE None

\* stable sort by relevance, descending (insertion into a sorted prefix)
RECURSIVE InsertByRelevance(_, _)
InsertByRelevance(sorted, m) ==
    IF sorted = <<>> THEN <<m>>
    ELSE IF Head(sorted).relevance >= m.relevance
         THEN <<Head(sorted)>> \o InsertByRelevance(Tail(sorted), m)
         ELSE <<m>> \o sorted

RECURSIVE SortByRelevance(_, _)
SortByRelevance(ms, i) ==
    IF i = 0 THEN <<>> ELSE InsertByRelevance(SortByRelevance(ms, i - 1), ms[i])

get_short_term_memory_sorted(p) ==
    SortByRelevance(p.short_term_memory, Len(p.short_term_memory))

\* the first system-role message, as a list of zero or one message
FirstSystem(msgs) ==
    LET idx == {i \in 1..Len(msgs) : msgs[i].role = "system"}
    IN  IF idx = {} THEN <<>>
        ELSE <<msgs[CHOOSE i \in idx : \A j \in idx : i <= j]>>

NotSystem(m) == m.role # "system"

\* ------------------------------------------------------------ processors
\* Fixed pieces of message text, kept as tokens:
\*   MemoryTag   the bracketed marker "system message - short-term memory"
\*   InjectWord  "now injecting for you" (ShortTermAssembler's template)
\*   ExpandWord  "according to"          (ShortTermExpander's message)
MemoryTag == "[short-term-memory]"
InjectWord == "now-injecting"
ExpandWord == "according-to"

UserName == "user_name"

Ok(p) == [ok |-> TRUE, packet |-> p]
Err(p) == [ok |-> FALSE, packet |-> p]

\* A processor's input from its environment: `input` is what the outside
\* world gives it in this run (0 or less: a failure; see ProcessorInputs),
\* `ms` the millisecond clock it reads.

HistorySimplifier(p, input, ms) ==
    Ok(set_processor_state(p, "HistorySimplifier", "simplified"))

SubconsciousProcessor(p, input, ms) ==
    Ok(set_processor_state(p, "SubconsciousProcessor", "processed"))

\* input = -1: the configuration file cannot be read; 0: no attempt gave a
\* chunk; n > 0: the best chunk set has n chunks
ChunkMemory(ms, i) ==
    [ id            |-> <<"chunk", ms, i>>,
      summary       |-> <<"s">>,
      content       |-> <<"c">>,
      memory_type   |-> "fact",
      relevance     |-> 100,
      should_expand |-> FALSE ]

\* ContentChunker keeping every system message of the packet
ContentChunkerKeepingSystem(p, input, ms) ==
    IF input = -1 THEN Err(p)
    ELSE IF SelectSeq(p.messages, NotSystem) = <<>>
         THEN Ok(set_processor_state(p, "ContentChunker", "skipped:empty_conversation"))
    ELSE IF input = 0 THEN Err(p)
    ELSE LET added   == [i \in 1..input |-> ChunkMemory(ms, i - 1)]
             keep(m) == m.role = "system"
             cleared == [p EXCEPT !.short_term_memory = @ \o added,
                                  !.messages = SelectSeq(@, keep)]
         IN  Ok(set_processor_state(cleared, "ContentChunker", "chunked"))

ContentChunker(p, input, ms) ==
    IF input = -1 THEN Err(p)
    ELSE IF SelectSeq(p.messages, NotSystem) = <<>>
         THEN Ok(set_processor_state(p, "ContentChunker", "skipped:empty_conversation"))
    ELSE IF input = 0 THEN Err(p)
    ELSE LET added   == [i \in 1..input |-> ChunkMemory(ms, i - 1)]
             cleared == [p EXCEPT !.short_term_memory = @ \o added,
                                  !.messages = FirstSystem(p.messages)]
         IN  Ok(set_processor_state(cleared, "ContentChunker", "chunked"))

\* The model's answer to the chunking prompt is kept as a list of pieces:
\* the tags "<chunks>", "</chunks>", "<chunk>", "</chunk>", a piece "b1" or
\* "b2" for a summary tag and a content tag with their text, and "junk" for
\* any other text of one byte or more.
ChunkBodies == {"b1", "b2"}

\* last index at which s holds c, or 0
RFind(s, c) ==
    LET at == {i \in 1..Len(s) : s[i] = c}
    IN  IF at = {} THEN 0 ELSE CHOOSE i \in at : \A j \in at : j <= i

\* the run ended in a panic
Panic == [panic |-> TRUE]

\* ContentChunker::extract_xml_content: the text from the first <chunks> to
\* the first </chunks> after it; or else that from the first <chunk> to the
\* last </chunk>, a slice whose start lies after its end when text stands
\* between the last </chunk> and a later first <chunk>
extract_xml_content(response) ==
    LET start       == FindChar(response, 1, "<chunks>")
        end         == IF start = 0 THEN 0 ELSE FindChar(response, start, "</chunks>")
        first_chunk == FindChar(response, 1, "<chunk>")
        last_chunk  == RFind(response, "</chunk>")
    IN  IF start # 0 /\ end # 0 THEN [ok |-> TRUE, xml |-> SubSeq(response, start, end)]
        ELSE IF first_chunk # 0 /\ last_chunk # 0
        THEN IF last_chunk + 1 < first_chunk THEN Panic
             ELSE [ok |-> TRUE, xml |-> SubSeq(response, first_chunk, last_chunk)]
        ELSE [ok |-> FALSE]

\* ContentChunker::parse_single_chunk: None without a summary or a content
parse_single_chunk(chunk_xml) ==
    LET at == {i \in 1..Len(chunk_xml) : chunk_xml[i] \in ChunkBodies}
    IN  IF at = {} THEN None
        ELSE LET body == chunk_xml[CHOOSE i \in at : \A j \in at : i <= j]
             IN  Some([summary |-> body, content |-> body, chunk_type |-> "other"])

\* the loop of parse_chunks and of try_partial_parse: the chunks between
\* <chunk> and </chunk> from search_start on, those that do not parse left
\* out
RECURSIVE ChunksFrom(_, _)
ChunksFrom(xml, search_start) ==
    LET chunk_start == FindChar(xml, search_start, "<chunk>")
        chunk_end   == IF chunk_start = 0 THEN 0
                       ELSE FindChar(xml, chunk_start, "</chunk>")
    IN  IF chunk_start = 0 \/ chunk_end = 0 THEN <<>>
        ELSE parse_single_chunk(SubSeq(xml, chunk_start, chunk_end))
                 \o ChunksFrom(xml, chunk_end + 1)

\* ContentChunker::parse_chunks
parse_chunks(response) ==
    LET xml_content == extract_xml_content(response)
    IN  IF xml_content = Panic THEN Panic
        ELSE IF ~xml_content.ok THEN [ok |-> FALSE]
        ELSE LET chunks == ChunksFrom(xml_content.xml, 1)
             IN  IF chunks = <<>> THEN [ok |-> FALSE]
                 ELSE [ok |-> TRUE, chunks |-> chunks]

\* ContentChunker::try_partial_parse
try_partial_parse(response) ==
    LET chunks == ChunksFrom(response, 1)
    IN  IF chunks = <<>> THEN None ELSE Some(chunks)

max_retries == 3

\* what chat_with_model gives: an error, or the text of the answer
CallFailed == [ok |-> FALSE]

Answered(response) == [ok |-> TRUE, response |-> response]

\* One pass of the retry loop of ContentChunker::process on the answer of
\* the model call.  loop holds attempt (the attempts made), best_chunks and
\* next: "retry" to go round again, "break" after a full parse, "panic".
Attempt(loop, answer) ==
    LET made == [loop EXCEPT !.attempt = @ + 1]
    IN  IF ~answer.ok THEN made
        ELSE LET parsed == parse_chunks(answer.response)
             IN  IF parsed = Panic THEN [made EXCEPT !.next = "panic"]
                 ELSE IF parsed.ok
                 THEN [made EXCEPT !.best_chunks = parsed.chunks, !.next = "break"]
                 ELSE LET partial == try_partial_parse(answer.response)
                      IN  IF partial # None /\ Len(partial[1]) > Len(loop.best_chunks)
                          THEN [made EXCEPT !.best_chunks = partial[1]]
                          ELSE made

RECURSIVE JoinLines(_)
JoinLines(lines) ==
    IF lines = <<>> THEN <<>>
    ELSE IF Len(lines) = 1 THEN lines[1]
    ELSE lines[1] \o <<"\n">> \o JoinLines(Tail(lines))

format_memories(p) ==
    LET sorted == get_short_term_memory_sorted(p)
    IN  JoinLines([i \in 1..Len(sorted) |->
                      <<"[", sorted[i].memory_type, "]">> \o sorted[i].summary])

\* ShortTermAssembler moving user_input out of the packet (mem::take) as it
\* rebuilds the messages
ShortTermAssemblerTakingInput(p, input, ms) ==
    IF input = 0 THEN Err(p)
    ELSE IF p.short_term_memory = <<>>
         THEN Ok(set_processor_state(p, "ShortTermAssembler", "skipped:no_short_term_memory"))
    ELSE LET user_content == <<MemoryTag, InjectWord, UserName, "\n">>
                                 \o format_memories(p) \o <<"\n">>
             kept     == FirstSystem(p.messages)
             injected == Append(kept, ChatMessage("user", user_content))
             msgs     == IF p.user_input # <<>>
                         THEN Append(injected, ChatMessage("user", p.user_input))
                         ELSE injected
         IN  Ok(set_processor_state([p EXCEPT !.messages = msgs, !.user_input = <<>>],
                                    "ShortTermAssembler", "assembled"))

\* AssemblerConfig::user_message_template, up to {memories}, with the user
\* name in the place of {user_name}: the template of AssemblerConfig::default
\* (input = 1) or the one config.toml gives, whatever it says (input = 2)
user_message_template(input) ==
    IF input = 2 THEN <<"recalled-for", UserName, "\n">>
    ELSE <<MemoryTag, InjectWord, UserName, "\n">>

\* input = 0: the configuration file cannot be read or parsed
ShortTermAssembler(p, input, ms) ==
    IF input = 0 THEN Err(p)
    ELSE IF p.short_term_memory = <<>>
         THEN Ok(set_processor_state(p, "ShortTermAssembler", "skipped:no_short_term_memory"))
    ELSE LET user_content == user_message_template(input)
                                 \o format_memories(p) \o <<"\n">>
             kept     == FirstSystem(p.messages)
             injected == Append(kept, ChatMessage("user", user_content))
             msgs     == IF p.user_input # <<>>
                         THEN Append(injected, ChatMessage("user", p.user_input))
                         ELSE injected
         IN  Ok(set_processor_state([p EXCEPT !.messages = msgs],
                                    "ShortTermAssembler", "assembled"))

\* should_remove without the rule for expanded memories
should_remove_injection_only(msg) ==
    msg.role = "user" /\ StartsWith(msg.content, <<MemoryTag, InjectWord>>)

should_remove(msg) ==
    \/ msg.role = "user" /\ StartsWith(msg.content, <<MemoryTag, InjectWord>>)
    \/ msg.role = "user" /\ StartsWith(msg.content, <<MemoryTag, ExpandWord>>)

ShouldKeep(msg) == ~should_remove(msg)

ContextCleaner(p, input, ms) ==
    Ok(set_processor_state([p EXCEPT !.messages = SelectSeq(@, ShouldKeep)],
                           "ContextCleaner", "cleaned"))

IsMarkedExpand(m) == m.should_expand

RECURSIVE JoinParagraphs(_)
JoinParagraphs(items) ==
    IF items = <<>> THEN <<>>
    ELSE IF Len(items) = 1 THEN items[1]
    ELSE items[1] \o <<"\n", "\n">> \o JoinParagraphs(Tail(items))

build_expanded_text(p) ==
    LET marked == SelectSeq(p.short_term_memory, IsMarkedExpand)
    IN  JoinParagraphs([i \in 1..Len(marked) |->
            <<"[", "timestamp", "]", "[", marked[i].memory_type, "]">>
                \o marked[i].summary \o <<"\n">> \o marked[i].content])

ShortTermExpander(p, input, ms) ==
    IF SelectSeq(p.short_term_memory, IsMarkedExpand) = <<>>
    THEN Ok(set_processor_state(p, "ShortTermExpander", "not_expanded:none_marked"))
    ELSE IF build_expanded_text(p) = <<>>
    THEN Ok(set_processor_state(p, "ShortTermExpander", "not_expanded:text_empty"))
    ELSE LET injection  == <<MemoryTag, ExpandWord, UserName, "\n">>
                               \o build_expanded_text(p)
             n          == Len(p.messages)
             insert_pos == IF n >= 1 THEN n - 1 ELSE n
             msgs       == SubSeq(p.messages, 1, insert_pos)
                               \o <<ChatMessage("user", injection)>>
                               \o SubSeq(p.messages, insert_pos + 1, n)
         IN  Ok(set_processor_state([p EXCEPT !.messages = msgs],
                                    "ShortTermExpander", "expanded"))

\* input = 0: the vector file cannot be written.  (The vector file itself
\* is not part of the packet.)
ShortTermVectorizer(p, input, ms) ==
    IF p.short_term_memory = <<>>
    THEN Ok(set_processor_state(p, "ShortTermVectorizer", "not_vectorized:no_memories"))
    ELSE IF input = 0 THEN Err(p)
    ELSE Ok(set_processor_state(p, "ShortTermVectorizer", "vectorized"))

\* create_all_processors: the registry of the dispatcher
Registered ==
    { "HistorySimplifier", "SubconsciousProcessor", "ContentChunker",
      "ShortTermAssembler", "ContextCleaner", "ShortTermExpander",
      "ShortTermVectorizer" }

requires_memory(name) == name \in Registered

ProcessorInputs(name) ==
    CASE name = "ContentChunker"      -> (-1)..MaxChunks
      [] name = "ShortTermAssembler"  -> {0, 1}
      [] name = "ShortTermVectorizer" -> {0, 1}
      [] OTHER                        -> {1}

process(name, p, input, ms) ==
    CASE name = "HistorySimplifier"     -> HistorySimplifier(p, input, ms)
      [] name = "SubconsciousProcessor" -> SubconsciousProcessor(p, input, ms)
      [] name = "ContentChunker"        -> ContentChunker(p, input, ms)
      [] name = "ShortTermAssembler"    -> ShortTermAssembler(p, input, ms)
      [] name = "ContextCleaner"        -> ContextCleaner(p, input, ms)
      [] name = "ShortTermExpander"     -> ShortTermExpander(p, input, ms)
      [] name = "ShortTermVectorizer"   -> ShortTermVectorizer(p, input, ms)

\* ------------------------------------------------------- pipeline config
PipelineTiming ==
    { "on_user_message", "before_ai_call", "on_stream_start",
      "on_stream_chunk", "after_ai_response", "background_process" }

default_on_user_message == <<"HistorySimplifier", "MemoryAssembler">>

default_after_ai_response ==
    <<"SubconsciousProcessor", "ContentChunker", "ShortTermVectorizer", "MemoryCommitter">>

\* PipelineConfig::default()
DefaultPipeline ==
    [ on_user_message    |-> default_on_user_message,
      before_ai_call     |-> <<>>,
      on_stream_start    |-> <<>>,
      on_stream_chunk    |-> <<>>,
      after_ai_response  |-> default_after_ai_response,
      background_process |-> <<>> ]

\* An assistant's own pipeline (config.toml): short-term memory assembled
\* before the call, the turn chunked after it, one background processor.
MemoryPipeline ==
    [ on_user_message    |-> <<"ContextCleaner", "ShortTermAssembler">>,
      before_ai_call     |-> <<>>,
      on_stream_start    |-> <<>>,
      on_stream_chunk    |-> <<>>,
      after_ai_response  |-> <<"ContentChunker">>,
      background_process |-> <<"SubconsciousProcessor">> ]

\* A pipeline whose only processor runs in the background task
BackgroundPipeline ==
    [ on_user_message    |-> <<>>,
      before_ai_call     |-> <<>>,
      on_stream_start    |-> <<>>,
      on_stream_chunk    |-> <<>>,
      after_ai_response  |-> <<>>,
      background_process |-> <<"SubconsciousProcessor">> ]

\* A pipeline that expands the marked memories before the call and
\* vectorizes the new chunks after it
ExpanderPipeline ==
    [ on_user_message    |-> <<"ContextCleaner", "ShortTermAssembler">>,
      before_ai_call     |-> <<"ShortTermExpander">>,
      on_stream_start    |-> <<>>,
      on_stream_chunk    |-> <<>>,
      after_ai_response  |-> <<"ContentChunker", "ShortTermVectorizer">>,
      background_process |-> <<>> ]

\* ------------------------------------------------------ relation graph

\* TemporalProcessor::default: the half-life of the temporal weight, in hours
half_life_hours == 24
\* a timestamp is a whole number of days; chrono gives differences in seconds
SecondsPerDay == 86400

\* compute_temporal_weight: 2 / (1 + e^(k * dt)) with k = ln 3 / half-life,
\* that is 2 / (1 + 3^(dt / half-life)); the f32 is kept as the fraction
\* num / den
compute_temporal_weight(time_diff_seconds, half_life) ==
    IF time_diff_seconds <= 0 THEN [num |-> 1, den |-> 1]
    ELSE [num |-> 2,
          den |-> 1 + 3^(time_diff_seconds \div (half_life * 3600))]

\* Node: its id and features.timestamp (None or Some(day))
Node(id, timestamp) == [id |-> id, timestamp |-> timestamp]

\* Edge::new
Edge(source, target, weight) ==
    [source |-> source, target |-> target, weight |-> weight]

\* HashMap::entry(key).or_default().push(val)
EntryPush(map, key, val) ==
    IF key \in DOMAIN map THEN [map EXCEPT ![key] = Append(@, val)]
    ELSE [k \in DOMAIN map \cup {key} |->
            IF k = key THEN <<val>> ELSE map[k]]

\* AdjacencyIndex::new
NewIndex == [forward |-> <<>>, backward |-> <<>>]

\* AdjacencyIndex::add_edge
cache_add_edge(index, source, target, weight) ==
    [forward  |-> EntryPush(index.forward, source, <<target, weight>>),
     backward |-> EntryPush(index.backward, target, <<source, weight>>)]

\* AdjacencyIndex::build_from_edges
RECURSIVE build_from_edges(_)
build_from_edges(edges) ==
    IF edges = <<>> THEN NewIndex
    ELSE LET e == edges[Len(edges)]
         IN  cache_add_edge(build_from_edges(SubSeq(edges, 1, Len(edges) - 1)),
                            e.source, e.target, e.weight)

\* Vec::retain(|(id, _)| id != other)
RetainNot(list, other) == SelectSeq(list, LAMBDA entry : entry[1] # other)

\* AdjacencyIndex::remove_edge
cache_remove_edge(index, source, target) ==
    [forward  |-> IF source \in DOMAIN index.forward
                  THEN [index.forward EXCEPT ![source] = RetainNot(@, target)]
                  ELSE index.forward,
     backward |-> IF target \in DOMAIN index.backward
                  THEN [index.backward EXCEPT ![target] = RetainNot(@, source)]
                  ELSE index.backward]

\* AdjacencyIndex::remove_node
cache_remove_node(index, node_id) ==
    [forward  |-> [k \in DOMAIN index.forward \ {node_id} |->
                      RetainNot(index.forward[k], node_id)],
     backward |-> [k \in DOMAIN index.backward \ {node_id} |->
                      RetainNot(index.backward[k], node_id)]]

\* DimensionGraph::new; created_at and updated_at are the clock's first reading
NewGraph ==
    [ nodes           |-> <<>>,
      edges           |-> <<>>,
      adjacency_cache |-> None,
      node_index      |-> None,
      metadata        |-> [created_at |-> 0, updated_at |-> 0,
                           node_count |-> 0, edge_count |-> 0] ]

\* DimensionGraph::update_metadata; `now` is what Utc::now() reads
update_metadata(g, now) ==
    [g EXCEPT !.metadata = [@ EXCEPT !.updated_at = now,
                                     !.node_count = Len(g.nodes),
                                     !.edge_count = Len(g.edges)]]

\* DimensionGraph::rebuild_node_index: a later node of the same id replaces
\* an earlier one
rebuild_node_index(g) ==
    LET ids == {g.nodes[i].id : i \in 1..Len(g.nodes)}
        Last(id) == CHOOSE i \in 1..Len(g.nodes) :
                        /\ g.nodes[i].id = id
                        /\ \A j \in (i + 1)..Len(g.nodes) : g.nodes[j].id # id
    IN  [g EXCEPT !.node_index = Some([id \in ids |-> Last(id)])]

\* DimensionGraph::rebuild_adjacency_cache
rebuild_adjacency_cache(g) ==
    [g EXCEPT !.adjacency_cache = Some(build_from_edges(g.edges))]

\* DimensionGraph::rebuild_caches
rebuild_caches(g) == rebuild_node_index(rebuild_adjacency_cache(g))

\* Iterator::position: the first of the indices that satisfy the test (given
\* as the set of those that do), or 0
Position(indices) ==
    IF indices = {} THEN 0
    ELSE CHOOSE i \in indices : \A j \in indices : i <= j

\* Vec::remove(index)
RemoveAt(list, index) ==
    SubSeq(list, 1, index - 1) \o SubSeq(list, index + 1, Len(list))

\* DimensionGraph::add_node
add_node(g, node, now) ==
    LET pushed == [g EXCEPT
            !.nodes = Append(@, node),
            !.node_index =
                IF @ = None THEN None
                ELSE Some([id \in DOMAIN @[1] \cup {node.id} |->
                             IF id = node.id THEN Len(g.nodes) + 1
                             ELSE @[1][id]])]
    IN  update_metadata(pushed, now)

\* DimensionGraph::remove_node: the graph after the call and what it returns
remove_node(g, node_id, now) ==
    LET index == Position({i \in 1..Len(g.nodes) : g.nodes[i].id = node_id})
    IN  IF index = 0 THEN [graph |-> g, ret |-> None]
        ELSE LET removed == [g EXCEPT
                     !.nodes = RemoveAt(@, index),
                     !.edges = SelectSeq(@, LAMBDA e :
                                   e.source # node_id /\ e.target # node_id),
                     !.adjacency_cache =
                         IF @ = None THEN None
                         ELSE Some(cache_remove_node(@[1], node_id))]
             IN  [graph |-> update_metadata(rebuild_node_index(removed), now),
                  ret   |-> Some(g.nodes[index])]

\* DimensionGraph::get_node
get_node(g, node_id) ==
    IF g.node_index # None
    THEN IF node_id \in DOMAIN g.node_index[1]
         THEN Some(g.nodes[g.node_index[1][node_id]])
         ELSE None
    ELSE LET index == Position({i \in 1..Len(g.nodes) : g.nodes[i].id = node_id})
         IN  IF index = 0 THEN None ELSE Some(g.nodes[index])

\* DimensionGraph::add_edge
add_edge(g, edge, now) ==
    LET pushed == [g EXCEPT
            !.adjacency_cache =
                IF @ = None THEN None
                ELSE Some(cache_add_edge(@[1], edge.source, edge.target,
                                         edge.weight)),
            !.edges = Append(@, edge)]
    IN  update_metadata(pushed, now)

\* DimensionGraph::add_edges
RECURSIVE add_edges(_, _, _)
add_edges(g, edges, now) ==
    IF edges = <<>> THEN g
    ELSE add_edges(add_edge(g, Head(edges), now), Tail(edges), now)

\* DimensionGraph::remove_edge: the graph after the call and what it returns
remove_edge(g, source, target, now) ==
    LET index == Position({i \in 1..Len(g.edges) :
                              /\ g.edges[i].source = source
                              /\ g.edges[i].target = target})
    IN  IF index = 0 THEN [graph |-> g, ret |-> None]
        ELSE LET removed == [g EXCEPT
                     !.edges = RemoveAt(@, index),
                     !.adjacency_cache =
                         IF @ = None THEN None
                         ELSE Some(cache_remove_edge(@[1], source, target))]
             IN  [graph |-> update_metadata(removed, now),
                  ret   |-> Some(g.edges[index])]

\* the loop of find_temporal_neighbors_internal from node i on; pred and succ
\* are None or Some(<<id, timestamp>>)
RECURSIVE ScanNeighbors(_, _, _, _, _)
ScanNeighbors(nodes, i, ts, pred, succ) ==
    IF i > Len(nodes) THEN [pred |-> pred, succ |-> succ]
    ELSE LET node == nodes[i]
         IN  IF node.timestamp = None
             THEN ScanNeighbors(nodes, i + 1, ts, pred, succ)
             ELSE LET node_ts == node.timestamp[1]
                  IN  IF node_ts < ts
                      THEN IF pred = None \/ node_ts > pred[1][2]
                           THEN ScanNeighbors(nodes, i + 1, ts,
                                              Some(<<node.id, node_ts>>), succ)
                           ELSE ScanNeighbors(nodes, i + 1, ts, pred, succ)
                      ELSE IF node_ts > ts
                      THEN IF succ = None \/ node_ts < succ[1][2]
                           THEN ScanNeighbors(nodes, i + 1, ts, pred,
                                              Some(<<node.id, node_ts>>))
                           ELSE ScanNeighbors(nodes, i + 1, ts, pred, succ)
                      ELSE ScanNeighbors(nodes, i + 1, ts, pred, succ)

\* DimensionGraph::find_temporal_neighbors_internal: the ids of the
\* predecessor and of the successor, each None or Some(id)
find_temporal_neighbors_internal(g, ts) ==
    LET found == ScanNeighbors(g.nodes, 1, ts, None, None)
    IN  [pred |-> IF found.pred = None THEN None ELSE Some(found.pred[1][1]),
         succ |-> IF found.succ = None THEN None ELSE Some(found.succ[1][1])]

\* the Result of insert_temporal_node: Ok(edge_count) or the error
Linked(n) == [ok |-> TRUE, edge_count |-> n]
MissingFeature == [ok |-> FALSE, error |-> "MissingFeature(timestamp)"]

\* |a - b| in seconds
AbsSeconds(a, b) == (IF a >= b THEN a - b ELSE b - a) * SecondsPerDay

\* the edge insert_temporal_node adds from `source` to `target`, where
\* `other` is the neighbour looked up with get_node: none if the neighbour is
\* not found or has no timestamp
LinkTo(g, new_ts, other, source, target, now) ==
    LET found == get_node(g, other)
    IN  IF found = None \/ found[1].timestamp = None THEN g
        ELSE add_edge(g, Edge(source, target,
                 compute_temporal_weight(
                     AbsSeconds(new_ts, found[1].timestamp[1]),
                     half_life_hours)), now)

\* insert_temporal_node that pushes the node before it looks at the timestamp
insert_temporal_node_adding_first(g, node, now) ==
    IF node.timestamp = None
    THEN [graph |-> add_node(g, node, now), result |-> MissingFeature]
    ELSE LET new_ts == node.timestamp[1]
             near == find_temporal_neighbors_internal(g, new_ts)
             cut == IF near.pred # None /\ near.succ # None
                    THEN remove_edge(g, near.pred[1], near.succ[1], now).graph
                    ELSE g
             added == add_node(cut, node, now)
             linked1 == IF near.pred = None THEN added
                        ELSE LinkTo(added, new_ts, near.pred[1],
                                    near.pred[1], node.id, now)
             linked2 == IF near.succ = None THEN linked1
                        ELSE LinkTo(linked1, new_ts, near.succ[1],
                                    node.id, near.succ[1], now)
         IN  [graph |-> linked2,
              result |-> Linked(Len(linked2.edges) - Len(cut.edges))]

\* DimensionGraph::insert_temporal_node: the graph after the call and the
\* Result it returns
insert_temporal_node(g, node, now) ==
    IF node.timestamp = None
    THEN [graph |-> g, result |-> MissingFeature]
    ELSE LET new_ts == node.timestamp[1]
             near == find_temporal_neighbors_internal(g, new_ts)
             cut == IF near.pred # None /\ near.succ # None
                    THEN remove_edge(g, near.pred[1], near.succ[1], now).graph
                    ELSE g
             added == add_node(cut, node, now)
             linked1 == IF near.pred = None THEN added
                        ELSE LinkTo(added, new_ts, near.pred[1],
                                    near.pred[1], node.id, now)
             linked2 == IF near.succ = None THEN linked1
                        ELSE LinkTo(linked1, new_ts, near.succ[1],
                                    node.id, near.succ[1], now)
         IN  [graph |-> linked2,
              result |-> Linked(Len(linked2.edges) - Len(cut.edges))]

\* ---------------------------------------------------------- graph queries

\* f32 arithmetic on weights kept as fractions num / den (den > 0)
Frac(num, den) == [num |-> num, den |-> den]
FracGt(a, b) == a.num * b.den > b.num * a.den
FracEq(a, b) == a.num * b.den = b.num * a.den
FracMul(a, b) == [num |-> a.num * b.num, den |-> a.den * b.den]
FracAdd(a, b) == [num |-> a.num * b.den + b.num * a.den, den |-> a.den * b.den]

\* sort_by(|a, b| b.key.partial_cmp(&a.key)) on the keys of a list: the list
\* positions in the order of the sorted list (a stable sort, greatest first)
SortDescending(keys) ==
    LET Rank(i) == 1 + Cardinality({j \in 1..Len(keys) : FracGt(keys[j], keys[i])})
                     + Cardinality({j \in 1..(i - 1) : FracEq(keys[j], keys[i])})
    IN  [r \in 1..Len(keys) |-> CHOOSE i \in 1..Len(keys) : Rank(i) = r]

\* Vec::truncate
Truncate(list, n) == SubSeq(list, 1, IF n < Len(list) THEN n ELSE Len(list))

RelatedNode(node_id, weight, direction) ==
    [node_id |-> node_id, weight |-> weight, direction |-> direction]

\* DimensionGraph::collect_forward: what it pushes
collect_forward(g, anchor, min_weight) ==
    LET found == SelectSeq(g.edges, LAMBDA e :
                     e.source = anchor /\ ~FracGt(min_weight, e.weight))
    IN  [i \in 1..Len(found) |->
            RelatedNode(found[i].target, found[i].weight, "forward")]

\* DimensionGraph::collect_backward: what it pushes
collect_backward(g, anchor, min_weight) ==
    LET found == SelectSeq(g.edges, LAMBDA e :
                     e.target = anchor /\ ~FracGt(min_weight, e.weight))
    IN  [i \in 1..Len(found) |->
            RelatedNode(found[i].source, found[i].weight, "backward")]

\* the first loop of DimensionGraph::query, from anchor i on
RECURSIVE Collect(_, _, _)
Collect(g, request, i) ==
    IF i > Len(request.anchors) THEN <<>>
    ELSE LET anchor == request.anchors[i]
             here == CASE request.direction = "forward" ->
                            collect_forward(g, anchor, request.min_weight)
                       [] request.direction = "backward" ->
                            collect_backward(g, anchor, request.min_weight)
                       [] OTHER ->
                            collect_forward(g, anchor, request.min_weight)
                            \o collect_backward(g, anchor, request.min_weight)
         IN  here \o Collect(g, request, i + 1)

\* the second loop keeping the entry seen first, whatever its weight
RECURSIVE DedupKeepingFirst(_, _)
DedupKeepingFirst(results, deduped) ==
    IF results = <<>> THEN deduped
    ELSE LET node == Head(results)
             idx == Position({i \in 1..Len(deduped) :
                                 deduped[i].node_id = node.node_id})
         IN  DedupKeepingFirst(Tail(results),
                   IF idx = 0 THEN Append(deduped, node) ELSE deduped)

\* the second loop of DimensionGraph::query: one entry per node_id, the one of
\* greatest weight (the earlier one of equals), in the order of first sight
RECURSIVE Dedup(_, _)
Dedup(results, deduped) ==
    IF results = <<>> THEN deduped
    ELSE LET node == Head(results)
             idx == Position({i \in 1..Len(deduped) :
                                 deduped[i].node_id = node.node_id})
         IN  Dedup(Tail(results),
                   IF idx = 0 THEN Append(deduped, node)
                   ELSE IF FracGt(node.weight, deduped[idx].weight)
                   THEN [deduped EXCEPT ![idx] = node]
                   ELSE deduped)

\* DimensionGraph::query
query(g, request) ==
    LET deduped == Dedup(Collect(g, request, 1), <<>>)
        others == SelectSeq(deduped, LAMBDA n :
                      \A i \in 1..Len(request.anchors) :
                          request.anchors[i] # n.node_id)
        order == SortDescending([i \in 1..Len(others) |-> others[i].weight])
    IN  Truncate([r \in 1..Len(others) |-> others[order[r]]], request.limit)

\* the SingleGraphQuery that query_multi runs on each dimension
single_query(request) ==
    [anchors |-> request.anchors, limit |-> request.limit * 2,
     min_weight |-> Frac(0, 1), direction |-> "both"]

\* the node ids in all_scores after the dimension loop of query_multi
ScoredIds(graphs, request) ==
    {n.node_id : n \in UNION {
        {query(graphs[d], single_query(request))[i] :
            i \in 1..Len(query(graphs[d], single_query(request)))} :
        d \in {d \in DOMAIN request.dimension_weights :
                  FracGt(request.dimension_weights[d], Frac(0, 1))}}}

\* the ScoredNode of node_id after the dimension loop of query_multi
RECURSIVE Accumulate(_, _, _, _)
Accumulate(graphs, request, node_id, dims) ==
    IF dims = {} THEN [node_id |-> node_id, total_score |-> Frac(0, 1),
                       dimension_scores |-> <<>>]
    ELSE LET d == CHOOSE d \in dims : TRUE
             rest == Accumulate(graphs, request, node_id, dims \ {d})
             result == query(graphs[d], single_query(request))
             idx == Position({i \in 1..Len(result) : result[i].node_id = node_id})
         IN  IF ~FracGt(request.dimension_weights[d], Frac(0, 1)) \/ idx = 0
             THEN rest
             ELSE [rest EXCEPT
                     !.total_score = FracAdd(@, FracMul(result[idx].weight,
                                             request.dimension_weights[d])),
                     !.dimension_scores =
                         [k \in DOMAIN @ \cup {d} |->
                             IF k = d THEN result[idx].weight ELSE @[k]]]

\* GraphLocator::query_multi; into_values is the order in which
\* all_scores.into_values() yields the node ids (any order: a HashMap)
query_multi(graphs, request, into_values) ==
    LET nodes == [i \in 1..Len(into_values) |->
                     Accumulate(graphs, request, into_values[i],
                                DOMAIN request.dimension_weights)]
        order == SortDescending([i \in 1..Len(nodes) |-> nodes[i].total_score])
        sorted == [r \in 1..Len(nodes) |-> nodes[order[r]]]
        kept == SelectSeq(sorted, LAMBDA n :
                    ~FracGt(request.min_score, n.total_score))
    IN  Truncate(kept, request.limit)

\* ------------------------------------------------- short_term_vectors.json
\* short_term_vectors.json is absent, or holds text that is not a vector file
NoVectorFile == [absent |-> TRUE]

\* AiClient::embedding_with_model with a provider that gives the same
\* embedding for the same text
embedding_with_model(text) == <<"e", text>>

\* ShortTermVectorFile::new(embedding_model, 0).  (metadata.last_updated,
\* the time of the write, is left out of the file.)
NewVectorFile ==
    [ vectors  |-> <<>>,
      metadata |-> [embedding_model |-> "embedding", dimension |-> 0] ]

\* ShortTermVectorizer::load_vector_file: None if the file cannot be read
\* or parsed
load_vector_file(stored) ==
    IF stored = NoVectorFile THEN None ELSE Some(stored)

\* ShortTermVectorizer::vectorize_memory
vectorize_memory(memory) ==
    [ id        |-> memory.id,
      summary   |-> memory.summary,
      embedding |-> embedding_with_model(memory.summary) ]

\* the ids of the vectors of a file
VectorIds(file) == {file.vectors[k].id : k \in 1..Len(file.vectors)}

\* The loop of ShortTermVectorizer::process over the memories from the
\* i-th on.  existing_ids is the set of ids the file had when it was loaded;
\* failed holds the positions of the memories whose embedding call fails.
RECURSIVE VectorizeFrom(_, _, _, _, _)
VectorizeFrom(vector_file, existing_ids, memories, failed, i) ==
    IF i > Len(memories) THEN vector_file
    ELSE IF i \in failed
    THEN VectorizeFrom(vector_file, existing_ids, memories, failed, i + 1)
    ELSE LET memory     == memories[i]
             is_new     == memory.id \notin existing_ids
             vectorized == vectorize_memory(memory)
             dimension  == IF vector_file.metadata.dimension = 0
                           THEN Len(vectorized.embedding)
                           ELSE vector_file.metadata.dimension
             found      == {k \in 1..Len(vector_file.vectors) :
                               vector_file.vectors[k].id = memory.id}
             vectors    == IF is_new THEN Append(vector_file.vectors, vectorized)
                           ELSE IF found # {}
                           THEN [vector_file.vectors EXCEPT ![Position(found)] = vectorized]
                           ELSE vector_file.vectors
         IN  VectorizeFrom([vectors  |-> vectors,
                            metadata |-> [vector_file.metadata EXCEPT
                                              !.dimension = dimension]],
                           existing_ids, memories, failed, i + 1)

\* What ShortTermVectorizer::process writes, from the file as it loaded it:
\* the vectors of the memories added or replaced, and the metadata
Vectorized(loaded, memories, failed) ==
    LET vector_file == IF loaded = None THEN NewVectorFile ELSE loaded[1]
        filled      == VectorizeFrom(vector_file, VectorIds(vector_file),
                                     memories, failed, 1)
    IN  [filled EXCEPT !.metadata.embedding_model = "embedding"]

\* What update_conversation_memory writes, from the file as it read it: the
\* first vector with the id gets the new summary and its embedding
UpdatedMemory(file, memory_id, summary) ==
    LET found == {k \in 1..Len(file.vectors) : file.vectors[k].id = memory_id}
        k     == Position(found)
    IN  [file EXCEPT !.vectors[k].summary = summary,
                     !.vectors[k].embedding = embedding_with_model(summary)]

\* The vectors rebuild_conversation_memory makes of the memories from the
\* i-th on
RECURSIVE RebuiltFrom(_, _, _)
RebuiltFrom(memories, failed, i) ==
    IF i > Len(memories) THEN <<>>
    ELSE IF i \in failed THEN RebuiltFrom(memories, failed, i + 1)
    ELSE <<vectorize_memory(memories[i])>> \o RebuiltFrom(memories, failed, i + 1)

\* What rebuild_conversation_memory writes
Rebuilt(memories, failed) ==
    LET vectorized_memories == RebuiltFrom(memories, failed, 1)
    IN  [ vectors  |-> vectorized_memories,
          metadata |-> [embedding_model |-> "embedding",
                        dimension |-> IF vectorized_memories = <<>> THEN 0
                                      ELSE Len(vectorized_memories[1].embedding)] ]

\* those who read short_term_vectors.json, change what they read and write
\* it back: the topic's ShortTermVectorizer and update_conversation_memory
Writers == {"ShortTermVectorizer", "update_conversation_memory"}

\* ------------------------------------------------------ PendingMemoryStore
\* PendingMemoryStore::add
add(queue, memory) == Append(queue, memory)

\* take_batch popping from the back of the queue
RECURSIVE take_batch_newest(_, _)
take_batch_newest(queue, count) ==
    IF count = 0 \/ queue = <<>> THEN [batch |-> <<>>, queue |-> queue]
    ELSE LET rest == take_batch_newest(SubSeq(queue, 1, Len(queue) - 1), count - 1)
         IN  [batch |-> <<queue[Len(queue)]>> \o rest.batch, queue |-> rest.queue]

\* PendingMemoryStore::take_batch: pop_front up to count times, until the
\* queue is empty
RECURSIVE take_batch(_, _)
take_batch(queue, count) ==
    IF count = 0 \/ queue = <<>> THEN [batch |-> <<>>, queue |-> queue]
    ELSE LET rest == take_batch(Tail(queue), count - 1)
         IN  [batch |-> <<Head(queue)>> \o rest.batch, queue |-> rest.queue]

\* PendingMemoryStore::peek
peek(queue, count) ==
    SubSeq(queue, 1, IF count < Len(queue) THEN count ELSE Len(queue))

\* ------------------------------------------------------------ GraphLocator
\* GraphScope.  (Ids and dimension names are lists of characters.)
ShortTerm(assistant_id, topic_id) ==
    [kind |-> "short", assistant_id |-> assistant_id, topic_id |-> topic_id]

LongTerm(assistant_id) ==
    [kind |-> "long", assistant_id |-> assistant_id, topic_id |-> <<>>]

Global == [kind |-> "global", assistant_id |-> <<>>, topic_id |-> <<>>]

\* the text before the dimension in GraphScope::cache_key, which is also
\* the prefix that delete_all and flush look for
scope_prefix(scope) ==
    CASE scope.kind = "short" ->
             <<"short", ":">> \o scope.assistant_id \o <<":">> \o scope.topic_id \o <<":">>
      [] scope.kind = "long" -> <<"long", ":">> \o scope.assistant_id \o <<":">>
      [] OTHER -> <<"global", ":">>

\* GraphScope::cache_key
cache_key(scope, dimension) == scope_prefix(scope) \o dimension

\* HashMap::get on the cache: the set with the object under the key, if any
cache_get(cache, key) == {e.obj : e \in {x \in cache : x.key = key}}

\* HashMap::insert on the cache
cache_insert(cache, key, obj) ==
    {e \in cache : e.key # key} \cup {[key |-> key, obj |-> obj]}

\* the entries of the cache whose key starts with the prefix of the scope
WithPrefix(cache, scope) == {e \in cache : StartsWith(e.key, scope_prefix(scope))}

\* --------------------------------------------------------------- system
\* the assistant's system prompt
SystemPrompt == <<"sys">>

\* the text of the last user message of request t
UserText(t) == <<"u", ToString(t)>>

\* what the chat provider can send back
ProviderOutputs ==
    { <<"A">>,
      <<"A">> \o ThinkOpen \o <<">", "x">> \o ThinkClose \o <<"B">> }

\* conversation_state.json is absent
NoPacket == [absent |-> TRUE]

VARIABLES
    disk,        \* topic -> the packet in conversation_state.json, or NoPacket
    history,     \* topic -> the messages in history.json
    turn,        \* request -> the state of the task that handles it
    commits,     \* topic -> the requests that persisted their turn, in order
    pipeline,    \* the assistant's PipelineConfig
    topic_type   \* topic -> "memory" | "normal" (meta.toml), for each topic

\* a packet in the hands of a caller of its methods
VARIABLES
    pkt,         \* the packet
    pkt_before,  \* Some(the packet as it was when end_turn was called), if
                 \* end_turn was the last call; None otherwise
    pkt_ended    \* the number of calls of end_turn so far

\* one streamed provider call, chunk by chunk
VARIABLES
    sse          \* the provider's output, the filter state of the stream, what
                 \* the handler forwarded and the packet it fills

\* one DimensionGraph in the hands of a caller of its methods
VARIABLES
    graph,       \* the graph
    graph_call   \* the last call on it: its name, its argument, what it
                 \* returned and, for insert_temporal_node, the graph before

\* queries on the graphs of one scope
VARIABLES
    q            \* the graphs, the request, and what the single-graph query
                 \* and the multi-graph query returned (None before the call)

\* short_term_vectors.json of one topic and those who rewrite it
VARIABLES
    vec          \* the file, the read-modify-write cycles in progress and
                 \* the last two runs of ShortTermVectorizer

\* one run of a processor on a packet
VARIABLES
    run          \* the packet before, the world's answers and the result

\* one PendingMemoryStore in the hands of its callers
VARIABLES
    pending      \* the queue, what was added and what was taken, in order

\* one GraphLocator and its callers
VARIABLES
    loc          \* the cache, the graph objects made so far, the graph
                 \* files, the calls of get in progress and what the last
                 \* delete_all or flush touched

chat_vars == <<disk, history, turn, commits, pipeline, topic_type>>
packet_vars == <<pkt, pkt_before, pkt_ended>>
stream_vars == <<sse>>
graph_vars == <<graph, graph_call>>
query_vars == <<q>>
vector_vars == <<vec>>
run_vars == <<run>>
pending_vars == <<pending>>
locator_vars == <<loc>>
\* what the actions of each part leave alone
not_chat_vars == <<packet_vars, stream_vars, graph_vars, query_vars, vector_vars, run_vars, pending_vars, locator_vars>>
not_packet_vars == <<chat_vars, stream_vars, graph_vars, query_vars, vector_vars, run_vars, pending_vars, locator_vars>>
not_stream_vars == <<chat_vars, packet_vars, graph_vars, query_vars, vector_vars, run_vars, pending_vars, locator_vars>>
not_graph_vars == <<chat_vars, packet_vars, stream_vars, query_vars, vector_vars, run_vars, pending_vars, locator_vars>>
not_query_vars == <<chat_vars, packet_vars, stream_vars, graph_vars, vector_vars, run_vars, pending_vars, locator_vars>>
not_vector_vars == <<chat_vars, packet_vars, stream_vars, graph_vars, query_vars, run_vars, pending_vars, locator_vars>>
not_run_vars == <<chat_vars, packet_vars, stream_vars, graph_vars, query_vars, vector_vars, pending_vars, locator_vars>>
not_pending_vars == <<chat_vars, packet_vars, stream_vars, graph_vars, query_vars, vector_vars, run_vars, locator_vars>>
not_locator_vars == <<chat_vars, packet_vars, stream_vars, graph_vars, query_vars, vector_vars, run_vars, pending_vars>>

vars == <<chat_vars, packet_vars, stream_vars, graph_vars, query_vars, vector_vars, run_vars, pending_vars, locator_vars>>

Topics == DOMAIN topic_type

\* The task of a request.  pc names the await the task is suspended at;
\* trace, returned, full_response, ai_failed, ran_after, base_len and
\* saved_len record what the task did.
Idle ==
    [ pc            |-> "idle",
      topic         |-> "",
      stream        |-> FALSE,
      user_message  |-> <<>>,
      packet        |-> NewPacket,
      timing        |-> "",
      idx           |-> 1,
      result        |-> "",
      trace         |-> <<>>,
      returned      |-> <<>>,
      full_response |-> <<>>,
      ai_failed     |-> FALSE,
      ran_after     |-> FALSE,
      base_len      |-> 0,
      saved_len     |-> 0 ]

\* a task that ended: only what it did is kept
Ended(r, pc) ==
    [Idle EXCEPT !.pc = pc, !.topic = r.topic, !.stream = r.stream,
                 !.timing = r.timing, !.ai_failed = r.ai_failed,
                 !.ran_after = r.ran_after, !.base_len = r.base_len,
                 !.saved_len = r.saved_len]

\* no caller holds a packet of its own
NoPacketCalls ==
    /\ pkt = NewPacket
    /\ pkt_before = None
    /\ pkt_ended = 0

\* a streamed call over the provider output `output`, before its first chunk
NewStream(output) ==
    [ output          |-> output,
      pos             |-> 1,
      in_thinking_tag |-> FALSE,
      tag_buffer      |-> <<>>,
      forwarded       |-> <<>>,
      sent            |-> {},
      full_response   |-> <<>>,
      ended           |-> FALSE,
      packet          |-> append_user_message(
                              set_system_message(NewPacket, SystemPrompt), UserText(1)) ]

\* no streamed call is followed chunk by chunk
NoStream == [NewStream(<<>>) EXCEPT !.ended = TRUE]

\* no request has arrived
NoRequests ==
    /\ disk = [tp \in DOMAIN topic_type |-> NoPacket]
    /\ history = [tp \in DOMAIN topic_type |-> <<>>]
    /\ turn = [t \in TurnIds |-> Idle]
    /\ commits = [tp \in DOMAIN topic_type |-> <<>>]

\* what graph_call holds before the first call
NoCall == [op |-> "new", arg |-> None, ret |-> None, before |-> None]

\* no caller holds a graph of its own
NoGraphCalls ==
    /\ graph = NewGraph
    /\ graph_call = NoCall

\* no query has been made
NoQuery ==
    q = [graphs |-> [d \in {"temporal", "entity"} |-> NewGraph],
         anchors |-> <<>>, limit |-> 0, min_weight |-> Frac(0, 1),
         dimension_weights |-> <<>>,
         single |-> None, multi |-> None]

\* no vector file is rewritten.  (first: the packet's memories, the failed
\* embedding calls and the file written of the last run of
\* ShortTermVectorizer, while the file is as that run left it; second: the
\* file written by a second run on the same packet.)
NoVectors ==
    vec = [file |-> NoVectorFile, cycle |-> [w \in Writers |-> None],
           first |-> None, second |-> None]

\* no processor is run on its own
NoRun == run = None

\* no pending store is in use
NoPending == pending = [queue |-> <<>>, added |-> <<>>, taken |-> <<>>, ret |-> None]

\* no locator is in use
NoLocator ==
    loc = [cache |-> {}, objects |-> <<>>, files |-> {}, calls |-> <<>>,
           returned |-> {}, last |-> None]

\* nothing but the chat handlers is in use
NoUnits ==
    /\ NoVectors
    /\ NoRun
    /\ NoPending
    /\ NoLocator

InitCommon ==
    /\ NoPacketCalls
    /\ NoQuery
    /\ NoUnits
    /\ sse = NoStream
    /\ NoGraphCalls
    /\ NoRequests

\* is_memory_enabled answering true for a topic of any type
is_memory_enabled_for_any_type(tp) == topic_type[tp] \in {"memory", "normal"}

\* ProcessorContext::is_memory_enabled
is_memory_enabled(tp) == topic_type[tp] = "memory"

\* conversation_state.json holds text that is not a packet
CorruptFile == [corrupt |-> TRUE]

\* PacketStorage::load: Ok(None) without a file, Err(ParseFailed) for a file
\* that does not parse, Ok(Some(packet)) otherwise
load(stored) ==
    IF stored = NoPacket THEN [ok |-> TRUE, packet |-> None]
    ELSE IF stored = CorruptFile THEN [ok |-> FALSE, error |-> "ParseFailed"]
    ELSE [ok |-> TRUE, packet |-> Some(stored)]

\* get_or_create_packet: the stored packet if load returns Ok(Some(packet)),
\* or else a new one seeded with the system prompt
get_or_create_packet(stored) ==
    LET loaded == load(stored)
    IN  IF loaded.ok /\ loaded.packet # None THEN loaded.packet[1]
        ELSE IF SystemPrompt # <<>> THEN set_system_message(NewPacket, SystemPrompt)
        ELSE NewPacket

\* --------------------------------------------------------- dispatcher
Entries(cfg, timing) ==
    CASE timing = "on_user_message"    -> cfg.on_user_message
      [] timing = "before_ai_call"     -> cfg.before_ai_call
      [] timing = "on_stream_start"    -> cfg.on_stream_start
      [] timing = "on_stream_chunk"    -> cfg.on_stream_chunk
      [] timing = "after_ai_response"  -> cfg.after_ai_response
      [] timing = "background_process" -> cfg.background_process

\* dispatch without the test of requires_memory against the topic
RunsIgnoringTopic(name, memory_enabled) == name \in Registered

\* whether the loop body of dispatch calls process for this entry
Runs(name, memory_enabled) ==
    /\ name \in Registered
    /\ ~(requires_memory(name) /\ ~memory_enabled)

\* dispatch with `?` on the call of process: the first error ends the loop
\* and is returned
DispatchEntryFailFast(r, name, memory_enabled, input, ms) ==
    IF ~Runs(name, memory_enabled) THEN [r EXCEPT !.idx = @ + 1]
    ELSE LET res == process(name, r.packet, input, ms)
             log == Append(r.trace, [timing |-> r.timing, entry |-> r.idx,
                                     name |-> name, ok |-> res.ok,
                                     given |-> r.packet, left |-> res.packet])
         IN  IF res.ok
             THEN [r EXCEPT !.idx = @ + 1, !.trace = log,
                            !.packet = [res.packet EXCEPT !.last_processor = Some(name)]]
             ELSE [r EXCEPT !.idx = Len(Entries(pipeline, r.timing)) + 1,
                            !.trace = log,
                            !.packet = res.packet,
                            !.result = "ProcessorFailed"]

\* One iteration of the loop of dispatch over entry `name`: the task
\* record after it.  `trace` logs each call of process with the packet it
\* was given and the packet it left.
DispatchEntry(r, name, memory_enabled, input, ms) ==
    IF ~Runs(name, memory_enabled) THEN [r EXCEPT !.idx = @ + 1]
    ELSE LET res == process(name, r.packet, input, ms)
             out == IF res.ok
                    THEN [res.packet EXCEPT !.last_processor = Some(name)]
                    ELSE res.packet
         IN  [r EXCEPT !.idx = @ + 1,
                       !.packet = out,
                       !.trace = Append(@, [timing |-> r.timing, entry |-> r.idx,
                                            name |-> name, ok |-> res.ok,
                                            given |-> r.packet,
                                            left |-> res.packet])]

\* dispatch returns; the caller goes on to what follows that phase
AfterDispatch(r) ==
    LET done == [r EXCEPT !.returned = Append(@, [timing |-> r.timing,
                                 result |-> IF r.result = "" THEN "Ok" ELSE r.result]),
                          !.result = ""]
    IN  CASE r.timing = "on_user_message" ->
                 [done EXCEPT !.timing = "before_ai_call", !.idx = 1]
          [] r.timing = "before_ai_call" ->
                 [done EXCEPT !.pc = IF r.stream THEN "pre_save" ELSE "ai"]
          [] r.timing = "after_ai_response" ->
                 [done EXCEPT !.pc = "end_turn_save", !.ran_after = TRUE]
          [] r.timing = "background_process" -> [done EXCEPT !.pc = "bg_save"]

\* The task runs on, through every dispatch that has no entry left, to its
\* next await.
RECURSIVE RunToAwait(_)
RunToAwait(r) ==
    IF r.pc = "dispatch" /\ r.idx > Len(Entries(pipeline, r.timing))
    THEN RunToAwait(AfterDispatch(r))
    ELSE r

DispatchStep(t) ==
    LET r       == turn[t]
        entries == Entries(pipeline, r.timing)
    IN  /\ r.pc = "dispatch"
        /\ r.idx <= Len(entries)
        /\ \E input \in ProcessorInputs(entries[r.idx]), ms \in 1..MaxClock :
               turn' = [turn EXCEPT ![t] = RunToAwait(
                   DispatchEntry(r, entries[r.idx], is_memory_enabled(r.topic), input, ms))]
        /\ UNCHANGED <<disk, history, commits, pipeline, topic_type, not_chat_vars>>

\* ------------------------------------------------- turn orchestration
\* get_or_create_packet behind a per-topic lock that the background task
\* holds until it has saved
PacketHandleHeldByBackground(tp) ==
    /\ tp \in Topics
    /\ \A u \in TurnIds :
           ~(/\ turn[u].topic = tp
             /\ \/ turn[u].pc = "bg_save"
                \/ turn[u].pc = "dispatch" /\ turn[u].timing = "background_process")

\* What get_or_create_packet waits for before it reads the topic's packet:
\* nothing (no lock is taken on the topic).
PacketHandleFree(tp) == tp \in Topics

\* A request arrives and its handler starts: load or create the packet,
\* append the user message, dispatch on_user_message.
Load(t, tp, stream) ==
    /\ turn[t].pc = "idle"
    /\ IF t = 1 THEN TRUE ELSE turn[t - 1].pc # "idle"
    /\ PacketHandleFree(tp)
    /\ LET loaded == get_or_create_packet(disk[tp])
       IN  turn' = [turn EXCEPT ![t] = RunToAwait(
               [Idle EXCEPT !.pc = "dispatch",
                            !.timing = "on_user_message",
                            !.topic = tp,
                            !.stream = stream,
                            !.user_message = UserText(t),
                            !.packet = append_user_message(loaded, UserText(t)),
                            !.base_len = Len(loaded.conversation_turns)])]
    /\ UNCHANGED <<disk, history, commits, pipeline, topic_type, not_chat_vars>>

\* create_stream_response: snapshot the request messages and persist the
\* packet before the provider is called
PreSave(t) ==
    LET r == turn[t]
        p == [r.packet EXCEPT !.last_request_messages = r.packet.messages]
    IN  /\ r.pc = "pre_save"
        /\ disk' = [disk EXCEPT ![r.topic] = p]
        /\ turn' = [turn EXCEPT ![t] = [r EXCEPT !.pc = "ai", !.packet = p]]
        /\ UNCHANGED <<history, commits, pipeline, topic_type, not_chat_vars>>

\* create_stream_response, from the provider call to the call of
\* post_process_and_save.  ok = FALSE: chat_stream_with_model returns Err.
StreamAi(r, ok, output) ==
    LET full_response == IF ok THEN Concat(chat_stream_with_model(output)) ELSE <<>>
        cleaned       == strip_thinking_tags(full_response)
    IN  [r EXCEPT !.pc = "dispatch",
                  !.timing = "after_ai_response",
                  !.idx = 1,
                  !.ai_failed = ~ok,
                  !.full_response = full_response,
                  !.packet = save_conversation_turn(
                                 append_assistant_message(r.packet, cleaned))]

\* create_response, from the provider call to the dispatch of
\* after_ai_response.  ok = FALSE: chat_with_model returns Err and the
\* handler returns error_response.
PlainAi(r, ok, output) ==
    LET ai_response == strip_thinking_tags(output)
    IN  IF ~ok
        THEN Ended([r EXCEPT !.ai_failed = TRUE], "done")
        ELSE [r EXCEPT !.pc = "dispatch",
                       !.timing = "after_ai_response",
                       !.idx = 1,
                       !.full_response = ai_response,
                       !.packet = append_assistant_message(r.packet, ai_response)]

AiCall(t) ==
    /\ turn[t].pc = "ai"
    /\ \E ok \in BOOLEAN, output \in ProviderOutputs :
           turn' = [turn EXCEPT ![t] = RunToAwait(
               IF turn[t].stream THEN StreamAi(turn[t], ok, output)
               ELSE PlainAi(turn[t], ok, output))]
    /\ UNCHANGED <<disk, history, commits, pipeline, topic_type, not_chat_vars>>

\* post_process_and_save / create_response: end_turn, then persist the packet
EndTurnSave(t) ==
    LET r == turn[t]
        p == end_turn(r.packet)
    IN  /\ r.pc = "end_turn_save"
        /\ disk' = [disk EXCEPT ![r.topic] = p]
        /\ commits' = [commits EXCEPT ![r.topic] = Append(@, t)]
        /\ turn' = [turn EXCEPT ![t] =
               [r EXCEPT !.pc = "history", !.packet = p,
                         !.saved_len = Len(p.conversation_turns)]]
        /\ UNCHANGED <<history, pipeline, topic_type, not_chat_vars>>

\* append_messages: the user message and the reply go to history.json
AppendHistory(t) ==
    LET r == turn[t]
    IN  /\ r.pc = "history"
        /\ history' = [history EXCEPT ![r.topic] =
               @ \o <<ChatMessage("user", r.user_message),
                      ChatMessage("assistant", r.full_response)>>]
        /\ turn' = [turn EXCEPT ![t] =
               IF r.stream THEN [r EXCEPT !.pc = "spawn"] ELSE Ended(r, "done")]
        /\ UNCHANGED <<disk, commits, pipeline, topic_type, not_chat_vars>>

\* tokio::spawn(background_process): a detached task with its own copy of
\* the packet; it returns at once when no background processor is configured
Spawn(t) ==
    LET r == turn[t]
    IN  /\ r.pc = "spawn"
        /\ turn' = [turn EXCEPT ![t] =
               IF pipeline.background_process = <<>>
               THEN Ended(r, "done")
               ELSE RunToAwait([r EXCEPT !.pc = "dispatch",
                                         !.timing = "background_process",
                                         !.idx = 1])]
        /\ UNCHANGED <<disk, history, commits, pipeline, topic_type, not_chat_vars>>

\* background_process: persist the task's packet
BgSave(t) ==
    LET r == turn[t]
    IN  /\ r.pc = "bg_save"
        /\ disk' = [disk EXCEPT ![r.topic] = r.packet]
        /\ turn' = [turn EXCEPT ![t] = Ended(r, "done")]
        /\ UNCHANGED <<history, commits, pipeline, topic_type, not_chat_vars>>

\* processors whose process suspends (a provider call, asynchronous file I/O)
Suspends(name) == name \in {"ContentChunker", "ShortTermVectorizer"}

\* The response stream of create_stream_response is suspended at an await
\* or a yield: at the first entry of a dispatch (the context was just
\* created), inside a processor that suspends, or at one of the handler's
\* own awaits.  The detached background task is not part of the stream.
StreamSuspended(r) ==
    /\ r.stream
    /\ r.timing # "background_process"
    /\ \/ r.pc \in {"pre_save", "ai", "end_turn_save", "history", "spawn"}
       \/ /\ r.pc = "dispatch"
          /\ \/ r.idx = 1
             \/ /\ Runs(Entries(pipeline, r.timing)[r.idx], is_memory_enabled(r.topic))
                /\ Suspends(Entries(pipeline, r.timing)[r.idx])

\* The client disconnects: the server drops the response stream, and the
\* generator inside it never resumes.
Disconnect(t) ==
    /\ StreamSuspended(turn[t])
    /\ turn' = [turn EXCEPT ![t] = Ended(turn[t], "dropped")]
    /\ UNCHANGED <<disk, history, commits, pipeline, topic_type, not_chat_vars>>

\* a memory as the frontend sends it
FrontendMemory(i, should_expand) ==
    [ id            |-> <<"m", i>>,
      summary       |-> <<"s", ToString(i)>>,
      content       |-> <<"c", ToString(i)>>,
      memory_type   |-> "fact",
      relevance     |-> 100,
      should_expand |-> should_expand ]

\* the lists of memories the frontend sends
FrontendMemories ==
    { <<FrontendMemory(1, FALSE)>>,
      <<FrontendMemory(1, FALSE), FrontendMemory(2, TRUE)>> }

\* update_short_term_memory: the frontend replaces the short-term memory
\* of the topic's packet.  (The handler's load and save are taken as one
\* step.)
update_short_term_memory(tp, memories) ==
    /\ disk' = [disk EXCEPT ![tp] =
           [get_or_create_packet(disk[tp]) EXCEPT !.short_term_memory = memories]]
    /\ UNCHANGED <<history, turn, commits, pipeline, topic_type, not_chat_vars>>

\* the handler of request t has sent [POST_PROCESS_DONE], or has ended
PostProcessDone(r) ==
    \/ r.pc \in {"spawn", "bg_save", "done", "dropped"}
    \/ r.pc = "dispatch" /\ r.timing = "background_process"

\* A request from a client that sends its next message only after the
\* marker [POST_PROCESS_DONE] of the one before
ClientLoad(t, tp, stream) ==
    /\ \A u \in TurnIds : u < t => PostProcessDone(turn[u])
    /\ Load(t, tp, stream)

Steps ==
    \/ \E t \in TurnIds : DispatchStep(t)
    \/ \E t \in TurnIds : PreSave(t)
    \/ \E t \in TurnIds : AiCall(t)
    \/ \E t \in TurnIds : EndTurnSave(t)
    \/ \E t \in TurnIds : AppendHistory(t)
    \/ \E t \in TurnIds : Spawn(t)
    \/ \E t \in TurnIds : BgSave(t)
    \/ \E t \in TurnIds : Disconnect(t)

\* Spec: requests arrive at any time
Init ==
    /\ topic_type = [tp \in {"t1"} |-> "memory"]
    /\ pipeline = MemoryPipeline
    /\ InitCommon

Next ==
    \/ \E t \in TurnIds, tp \in Topics, stream \in BOOLEAN : Load(t, tp, stream)
    \/ Steps

Spec == Init /\ [][Next]_vars

\* SpecClient: each request arrives after [POST_PROCESS_DONE] of the one
\* before, on an assistant whose pipeline has a background processor
InitClient ==
    /\ topic_type = [tp \in {"t1"} |-> "memory"]
    /\ pipeline = BackgroundPipeline
    /\ InitCommon

NextClient ==
    \/ \E t \in TurnIds, tp \in Topics, stream \in BOOLEAN : ClientLoad(t, tp, stream)
    \/ Steps

SpecClient == InitClient /\ [][NextClient]_vars

\* SpecPipeline: one request on a memory topic or a normal topic, under
\* any of Pipelines, while the frontend edits the topic's short-term memory
Pipelines == {DefaultPipeline, MemoryPipeline, ExpanderPipeline}

InitPipeline ==
    /\ topic_type = [tp \in {"t1", "t2"} |-> IF tp = "t1" THEN "memory" ELSE "normal"]
    /\ pipeline \in Pipelines
    /\ InitCommon

NextPipeline ==
    \/ \E tp \in Topics, stream \in BOOLEAN : Load(1, tp, stream)
    \/ \E tp \in Topics, memories \in FrontendMemories :
           update_short_term_memory(tp, memories)
    \/ Steps

SpecPipeline == InitPipeline /\ [][NextPipeline]_vars

\* SpecStorage: one request on a topic whose packet file is absent or does
\* not parse
InitStorage ==
    /\ topic_type = [tp \in {"t1"} |-> "memory"]
    /\ pipeline \in {DefaultPipeline, BackgroundPipeline}
    /\ disk \in [Topics -> {NoPacket, CorruptFile}]
    /\ history = [tp \in Topics |-> <<>>]
    /\ turn = [t \in TurnIds |-> Idle]
    /\ commits = [tp \in Topics |-> <<>>]
    /\ NoPacketCalls
    /\ NoGraphCalls
    /\ NoQuery
    /\ NoUnits
    /\ sse = NoStream

NextStorage ==
    \/ \E tp \in Topics, stream \in BOOLEAN : Load(1, tp, stream)
    \/ Steps

SpecStorage == InitStorage /\ [][NextStorage]_vars

\* ----------------------------------------------- a packet and its callers
\* bounds of SpecPacket: calls of end_turn, entries added to a pool
MaxEndTurns == 3
MaxPool == 1

\* the processors that store state; what one stores tells the turn
StateNames == {"HistorySimplifier", "ContextCleaner"}
StateOfTurn(n) == <<"turn", n>>

PacketSetState(name) ==
    /\ pkt_ended < MaxEndTurns
    /\ pkt' = set_processor_state(pkt, name, StateOfTurn(pkt_ended + 1))
    /\ pkt_before' = None
    /\ UNCHANGED <<pkt_ended, not_packet_vars>>

PacketAddThinking ==
    /\ Len(pkt.thinking_pool) < MaxPool
    /\ pkt' = add_thinking(pkt, <<"t">>, "subconscious")
    /\ pkt_before' = None
    /\ UNCHANGED <<pkt_ended, not_packet_vars>>

PacketAddMemory ==
    /\ Len(pkt.short_term_memory) < MaxPool
    /\ pkt' = add_short_term_memory(pkt, ChunkMemory(1, Len(pkt.short_term_memory)))
    /\ pkt_before' = None
    /\ UNCHANGED <<pkt_ended, not_packet_vars>>

\* the user's message of the turn, once per turn
PacketUserMessage ==
    /\ pkt_ended < MaxEndTurns
    /\ pkt.user_input = <<>>
    /\ pkt' = append_user_message(pkt, UserText(pkt_ended + 1))
    /\ pkt_before' = None
    /\ UNCHANGED <<pkt_ended, not_packet_vars>>

\* the reply of the turn and its record
PacketReply ==
    /\ pkt.user_input # <<>>
    /\ pkt.ai_response = None
    /\ pkt' = save_conversation_turn(append_assistant_message(pkt, <<"A">>))
    /\ pkt_before' = None
    /\ UNCHANGED <<pkt_ended, not_packet_vars>>

PacketEndTurn ==
    /\ pkt_ended < MaxEndTurns
    /\ pkt' = end_turn(pkt)
    /\ pkt_before' = Some(pkt)
    /\ pkt_ended' = pkt_ended + 1
    /\ UNCHANGED not_packet_vars

\* SpecPacket: any sequence of calls on one packet
InitPacket ==
    /\ topic_type = [tp \in {"t1"} |-> "memory"]
    /\ pipeline = DefaultPipeline
    /\ InitCommon

NextPacket ==
    \/ \E name \in StateNames : PacketSetState(name)
    \/ PacketAddThinking
    \/ PacketAddMemory
    \/ PacketUserMessage
    \/ PacketReply
    \/ PacketEndTurn

SpecPacket == InitPacket /\ [][NextPacket]_vars

\* ------------------------------------------- a streamed call, chunk by chunk
\* bounds of SpecStream: pieces in a provider output, characters in a chunk
MaxPieces == 4
MaxChunkLen == 2

\* the pieces provider outputs are made of
Pieces ==
    { ThinkOpen, <<">">>, ThinkClose, <<"<", "b", ">">>, <<"x">>, <<" ">> }

RECURSIVE PieceTexts(_)
PieceTexts(n) ==
    IF n = 0 THEN {<<>>}
    ELSE PieceTexts(n - 1) \cup {s \o piece : s \in PieceTexts(n - 1), piece \in Pieces}

StreamOutputs == PieceTexts(MaxPieces)

\* The stream takes the next n characters of the provider's output (one
\* content delta): the filter runs over them, and the handler adds each
\* string it yields to full_response and forwards it to the client.
RECURSIVE TakeChars(_, _)
TakeChars(st, n) ==
    IF n = 0 \/ st.pos > Len(st.output) THEN st
    ELSE LET f    == FilterChar(st.in_thinking_tag, st.tag_buffer, st.output[st.pos])
             len  == IF f.yielded = <<>> THEN 0 ELSE Len(f.yielded[1])
         IN  TakeChars([st EXCEPT !.pos = @ + 1,
                                  !.in_thinking_tag = f.in_thinking_tag,
                                  !.tag_buffer = f.tag_buffer,
                                  !.forwarded = @ \o f.yielded,
                                  !.sent = @ \cup ((st.pos - len + 1)..st.pos),
                                  !.full_response = @ \o Concat(f.yielded)],
                       n - 1)

ProviderChunk(n) ==
    /\ ~sse.ended
    /\ sse.pos + n - 1 <= Len(sse.output)
    /\ sse' = TakeChars(sse, n)
    /\ UNCHANGED not_stream_vars

\* the provider's stream ends: the handler strips the assembled response,
\* appends it to the packet as the assistant message and records the turn
StreamEnd ==
    /\ ~sse.ended
    /\ sse.pos > Len(sse.output)
    /\ sse' = [sse EXCEPT !.ended = TRUE,
                          !.packet = save_conversation_turn(
                               append_assistant_message(
                                   @, strip_thinking_tags(sse.full_response)))]
    /\ UNCHANGED not_stream_vars

\* SpecStream: one streamed call over any of StreamOutputs, split into
\* chunks in any way
InitStream ==
    /\ topic_type = [tp \in {"t1"} |-> "memory"]
    /\ pipeline = DefaultPipeline
    /\ NoRequests
    /\ NoPacketCalls
    /\ NoGraphCalls
    /\ NoQuery
    /\ NoUnits
    /\ sse \in {NewStream(output) : output \in StreamOutputs}

NextStream ==
    \/ \E n \in 1..MaxChunkLen : ProviderChunk(n)
    \/ StreamEnd

SpecStream == InitStream /\ [][NextStream]_vars

\* ------------------------------------------- a graph and its callers

MaxNodes == 4
MaxTime == 3
MaxGraphIds == 2
MaxEdges == 2

\* node ids are memory ids
NodeNames == <<"m1", "m2", "m3", "m4", "m5", "m6">>
GraphIds == {NodeNames[i] : i \in 1..MaxGraphIds}
\* features.timestamp of a node: absent, or a day
Timestamps == {None} \cup {Some(t) : t \in 1..MaxTime}
\* the weights given to add_edge
EdgeWeights == {compute_temporal_weight(0, half_life_hours)}

IdsOf(g) == {g.nodes[i].id : i \in 1..Len(g.nodes)}
\* what Utc::now() can read after the graph was last updated
Clock(g) == g.metadata.updated_at..MaxClock

Call(op, arg, ret, before) ==
    [op |-> op, arg |-> arg, ret |-> ret, before |-> before]

\* graph.insert_temporal_node(node, ..) for a memory that is not in the graph
InsertTemporalNode(id, timestamp) ==
    /\ id \notin IdsOf(graph)
    /\ \E now \in Clock(graph) :
         LET r == insert_temporal_node(graph, Node(id, timestamp), now)
         IN  /\ graph' = r.graph
             /\ graph_call' = Call("insert_temporal_node", Node(id, timestamp),
                                   r.result, Some(graph))
    /\ UNCHANGED not_graph_vars

\* graph.add_node(node) for a memory that is not in the graph
GraphAddNode(id, timestamp) ==
    /\ id \notin IdsOf(graph)
    /\ \E now \in Clock(graph) :
         graph' = add_node(graph, Node(id, timestamp), now)
    /\ graph_call' = Call("add_node", Node(id, timestamp), None, None)
    /\ UNCHANGED not_graph_vars

\* graph.remove_node(node_id)
GraphRemoveNode(node_id) ==
    /\ \E now \in Clock(graph) :
         LET r == remove_node(graph, node_id, now)
         IN  /\ graph' = r.graph
             /\ graph_call' = Call("remove_node", node_id, r.ret, None)
    /\ UNCHANGED not_graph_vars

\* graph.add_edge(edge)
GraphAddEdge(source, target, weight) ==
    /\ Len(graph.edges) < MaxEdges
    /\ \E now \in Clock(graph) :
         graph' = add_edge(graph, Edge(source, target, weight), now)
    /\ graph_call' = Call("add_edge", Edge(source, target, weight), None, None)
    /\ UNCHANGED not_graph_vars

\* graph.add_edges(edges)
GraphAddEdges(edges) ==
    /\ Len(graph.edges) + Len(edges) <= MaxEdges
    /\ \E now \in Clock(graph) : graph' = add_edges(graph, edges, now)
    /\ graph_call' = Call("add_edges", edges, None, None)
    /\ UNCHANGED not_graph_vars

\* graph.remove_edge(source, target)
GraphRemoveEdge(source, target) ==
    /\ \E now \in Clock(graph) :
         LET r == remove_edge(graph, source, target, now)
         IN  /\ graph' = r.graph
             /\ graph_call' = Call("remove_edge", <<source, target>>, r.ret,
                                   None)
    /\ UNCHANGED not_graph_vars

\* graph.rebuild_caches()
GraphRebuildCaches ==
    /\ graph' = rebuild_caches(graph)
    /\ graph_call' = Call("rebuild_caches", None, None, None)
    /\ UNCHANGED not_graph_vars

\* a graph as GraphLocator hands it out: DimensionGraph::new (no caches), or
\* DimensionGraph::load of a file without nodes (caches rebuilt)
InitGraph ==
    /\ topic_type = [tp \in {"t1"} |-> "memory"]
    /\ pipeline = DefaultPipeline
    /\ NoRequests
    /\ NoPacketCalls
    /\ sse = NoStream
    /\ graph \in {NewGraph, rebuild_caches(NewGraph)}
    /\ graph_call = NoCall
    /\ NoQuery
    /\ NoUnits

\* SpecTemporal: any sequence of insert_temporal_node on an empty graph; the
\* memories are m1, m2, .. in the order of their insertion, with any
\* timestamps
NextTemporal ==
    \E timestamp \in Timestamps :
        /\ Len(graph.nodes) < MaxNodes
        /\ InsertTemporalNode(NodeNames[Len(graph.nodes) + 1], timestamp)

SpecTemporal == InitGraph /\ [][NextTemporal]_vars

\* SpecGraph: any sequence of calls on one graph
GraphEdges ==
    {Edge(source, target, weight) :
        source \in GraphIds, target \in GraphIds, weight \in EdgeWeights}

NextGraph ==
    \/ \E id \in GraphIds, timestamp \in Timestamps :
           GraphAddNode(id, timestamp)
    \/ \E id \in GraphIds : GraphRemoveNode(id)
    \/ \E e \in GraphEdges : GraphAddEdge(e.source, e.target, e.weight)
    \/ \E e1 \in GraphEdges, e2 \in GraphEdges : GraphAddEdges(<<e1, e2>>)
    \/ \E source \in GraphIds, target \in GraphIds :
           GraphRemoveEdge(source, target)
    \/ GraphRebuildCaches
    \/ \E id \in GraphIds, timestamp \in Timestamps :
           InsertTemporalNode(id, timestamp)

SpecGraph == InitGraph /\ [][NextGraph]_vars

\* ------------------------------------------- queries on two dimension graphs

MaxQueryEdges == 3
MaxLimit == 2

\* the edges the queried graphs are made of: the anchor is m1
QueryEdges ==
    { Edge("m1", "m2", Frac(1, 1)), Edge("m1", "m3", Frac(1, 1)),
      Edge("m1", "m4", Frac(1, 2)), Edge("m1", "m4", Frac(1, 1)),
      Edge("m2", "m1", Frac(1, 2)) }

RECURSIVE EdgeLists(_)
EdgeLists(n) ==
    IF n = 0 THEN {<<>>}
    ELSE EdgeLists(n - 1)
         \cup {Append(l, e) : l \in {l \in EdgeLists(n - 1) : Len(l) = n - 1},
                              e \in QueryEdges}

\* a graph with these edges, as DimensionGraph::load hands it out
GraphOf(edges) == rebuild_caches([NewGraph EXCEPT !.edges = edges])

\* the requests: on "temporal" alone, or on "temporal" and "entity"
DimensionWeights ==
    {[d \in {"temporal"} |-> w] : w \in {Frac(1, 2), Frac(1, 1)}}
    \cup {[d \in {"temporal", "entity"} |->
              IF d = "temporal" THEN w ELSE v] :
              w \in {Frac(1, 2), Frac(1, 1)}, v \in {Frac(0, 1), Frac(1, 1)}}

\* the orders in which a HashMap can yield these keys
Orders(keys) ==
    {p \in [1..Cardinality(keys) -> keys] :
        \A i, j \in 1..Cardinality(keys) : p[i] = p[j] => i = j}

\* graph.query on the "temporal" graph with the anchors, limit and min_weight
QuerySingle ==
    /\ q.anchors # <<>>
    /\ q.single = None
    /\ q' = [q EXCEPT !.single = Some(query(q.graphs["temporal"],
                  [anchors |-> q.anchors, limit |-> q.limit,
                   min_weight |-> q.min_weight, direction |-> "both"]))]
    /\ UNCHANGED not_query_vars

\* the MultiGraphQuery with the same anchors and limit; its min_score is the
\* score of an edge of weight min_weight in the "temporal" dimension
MultiRequest ==
    [anchors |-> q.anchors, limit |-> q.limit,
     dimension_weights |-> q.dimension_weights,
     min_score |-> FracMul(q.min_weight, q.dimension_weights["temporal"])]

\* locator.query_multi
QueryMulti ==
    /\ q.anchors # <<>>
    /\ q.multi = None
    /\ \E into_values \in Orders(ScoredIds(q.graphs, MultiRequest)) :
         q' = [q EXCEPT !.multi = Some(query_multi(q.graphs, MultiRequest,
                                                   into_values))]
    /\ UNCHANGED not_query_vars

InitQuery ==
    /\ topic_type = [tp \in {"t1"} |-> "memory"]
    /\ pipeline = DefaultPipeline
    /\ NoRequests
    /\ NoPacketCalls
    /\ NoGraphCalls
    /\ NoUnits
    /\ sse = NoStream
    /\ q \in [graphs : {[d \in {"temporal", "entity"} |->
                            IF d = "temporal" THEN GraphOf(e1) ELSE GraphOf(e2)] :
                            e1 \in EdgeLists(MaxQueryEdges), e2 \in EdgeLists(1)},
              anchors : {<<"m1">>},
              limit : 1..MaxLimit,
              min_weight : {Frac(0, 1), Frac(1, 1)},
              dimension_weights : DimensionWeights,
              single : {None}, multi : {None}]

NextQuery ==
    \/ QuerySingle
    \/ QueryMulti

SpecQuery == InitQuery /\ [][NextQuery]_vars

\* ------------------------------------------- a vector file and its writers
MaxMemories == 2

\* the short-term memories a packet may hold, as far as the vector file
\* shows them
VectorMemories == [id : {"a"}, summary : {"s1", "s2"}]

MemoryLists == UNION {[1..n -> VectorMemories] : n \in 1..MaxMemories}

\* ShortTermVectorizer::process up to its first await after load_vector_file:
\* a packet without memories ends the run before the file is looked at
VectorizerLoad(memories) ==
    /\ vec.cycle["ShortTermVectorizer"] = None
    /\ vec' = [vec EXCEPT !.cycle["ShortTermVectorizer"] =
                   Some([loaded |-> load_vector_file(vec.file), memories |-> memories])]
    /\ UNCHANGED not_vector_vars

\* ShortTermVectorizer::process from there to its end: the embedding calls
\* and save_vector_file, which fails or writes the whole file
VectorizerSave(failed, written) ==
    /\ vec.cycle["ShortTermVectorizer"] # None
    /\ LET c    == vec.cycle["ShortTermVectorizer"][1]
           file == Vectorized(c.loaded, c.memories, failed)
       IN  vec' = IF written
                  THEN [vec EXCEPT !.cycle["ShortTermVectorizer"] = None,
                                   !.file = file,
                                   !.first = Some([memories |-> c.memories,
                                                   failed |-> failed, file |-> file]),
                                   !.second = None]
                  ELSE [vec EXCEPT !.cycle["ShortTermVectorizer"] = None]
    /\ UNCHANGED not_vector_vars

\* ShortTermVectorizer::process once more, on the packet of the run before
\* and the file that run left, with the provider answering as it did
VectorizerAgain ==
    /\ \A w \in Writers : vec.cycle[w] = None
    /\ vec.first # None
    /\ vec.second = None
    /\ vec.file = vec.first[1].file
    /\ LET file == Vectorized(load_vector_file(vec.file), vec.first[1].memories,
                              vec.first[1].failed)
       IN  vec' = [vec EXCEPT !.file = file, !.second = Some(file)]
    /\ UNCHANGED not_vector_vars

\* update_conversation_memory up to its first await: the file is read and
\* the memory found
UpdateRead(memory_id) ==
    /\ vec.cycle["update_conversation_memory"] = None
    /\ vec.file # NoVectorFile
    /\ memory_id \in VectorIds(vec.file)
    /\ vec' = [vec EXCEPT !.cycle["update_conversation_memory"] =
                   Some([file |-> vec.file, memory_id |-> memory_id])]
    /\ UNCHANGED not_vector_vars

\* update_conversation_memory from there to its end
UpdateWrite(summary) ==
    /\ vec.cycle["update_conversation_memory"] # None
    /\ LET c == vec.cycle["update_conversation_memory"][1]
       IN  vec' = [vec EXCEPT !.cycle["update_conversation_memory"] = None,
                              !.file = UpdatedMemory(c.file, c.memory_id, summary),
                              !.first = None, !.second = None]
    /\ UNCHANGED not_vector_vars

\* rebuild_conversation_memory: the file is written anew from the packet's
\* memories
RebuildWrite(memories, failed) ==
    /\ vec' = [vec EXCEPT !.file = Rebuilt(memories, failed),
                           !.first = None, !.second = None]
    /\ UNCHANGED not_vector_vars

InitVectors ==
    /\ topic_type = [tp \in {"t1"} |-> "memory"]
    /\ pipeline = DefaultPipeline
    /\ NoRequests
    /\ NoPacketCalls
    /\ NoGraphCalls
    /\ NoQuery
    /\ sse = NoStream
    /\ NoUnits

NextVectors ==
    \/ \E memories \in MemoryLists : VectorizerLoad(memories)
    \/ \E failed \in SUBSET (1..MaxMemories), written \in BOOLEAN :
           VectorizerSave(failed, written)
    \/ VectorizerAgain
    \/ \E memory_id \in {"a"} : UpdateRead(memory_id)
    \/ \E summary \in {"s1", "s2"} : UpdateWrite(summary)
    \/ \E memories \in MemoryLists, failed \in SUBSET (1..MaxMemories) :
           RebuildWrite(memories, failed)

SpecVectors == InitVectors /\ [][NextVectors]_vars

\* ------------------------------------------- one run of one processor
MaxMessages == 3

\* the messages of the packets a processor is run on: system prompts, a
\* user's and an assistant's text, the messages ShortTermAssembler and
\* ShortTermExpander inject, and a reply of the model that begins as an
\* injected message does
RunMessages ==
    { ChatMessage("system", <<"sys">>),
      ChatMessage("system", <<"sys2">>),
      ChatMessage("user", <<"u">>),
      ChatMessage("assistant", <<"a">>),
      ChatMessage("user", <<MemoryTag, InjectWord, "m">>),
      ChatMessage("user", <<MemoryTag, ExpandWord, "m">>),
      ChatMessage("assistant", <<MemoryTag, InjectWord, "m">>) }

RunPackets ==
    { [NewPacket EXCEPT !.messages = messages] :
          messages \in UNION {[1..n -> RunMessages] : n \in 0..MaxMessages} }

\* the answers of the model to the chunking prompt
Responses ==
    { <<"junk">>,
      <<"<chunks>", "<chunk>", "b1", "</chunk>", "</chunks>">>,
      <<"<chunks>", "<chunk>", "b1", "</chunk>", "<chunk>", "b2", "</chunk>", "</chunks>">>,
      <<"junk", "<chunk>", "b1", "</chunk>">>,
      <<"<chunks>", "<chunk>", "b1", "</chunk>">>,
      <<"<chunks>", "<chunk>", "junk", "</chunk>", "</chunks>">>,
      <<"<chunks>", "<chunk>", "junk", "</chunk>", "<chunk>", "b2", "</chunk>", "</chunks>">>,
      <<"<chunks>", "</chunks>", "<chunk>", "b1", "</chunk>">>,
      <<"<chunks>", "</chunks>", "<chunk>", "b1", "</chunk>", "<chunk>", "b2", "</chunk>">>,
      <<"</chunk>", "<chunk>">>,
      <<"b1", "</chunk>", "junk", "<chunk>", "b2">> }

Answers == {CallFailed} \cup {Answered(response) : response \in Responses}

\* the retry loop of ContentChunker::process before its first pass
NewLoop == [attempt |-> 0, best_chunks |-> <<>>, next |-> "retry"]

\* a processor about to run on packet p
NewRun(name, p) ==
    [ processor |-> name,
      before    |-> p,
      pc        |-> "begin",
      loop      |-> NewLoop,
      produced  |-> FALSE,
      largest   |-> 0,
      result    |-> None,
      cleaned   |-> None ]

\* an attempt gave a chunk, by parse_chunks or by try_partial_parse
Produced(answer) ==
    /\ answer.ok
    /\ LET parsed == parse_chunks(answer.response)
       IN  /\ parsed # Panic
           /\ parsed.ok \/ try_partial_parse(answer.response) # None

\* the chunks an attempt gave: those of parse_chunks, or else those of
\* try_partial_parse, or none
ChunksOf(answer) ==
    IF ~answer.ok THEN <<>>
    ELSE LET parsed == parse_chunks(answer.response)
             partial == try_partial_parse(answer.response)
         IN  IF parsed = Panic THEN <<>>
             ELSE IF parsed.ok THEN parsed.chunks
             ELSE IF partial # None THEN partial[1]
             ELSE <<>>

\* ContentChunker::process up to its retry loop: load_config and the test
\* for an empty conversation
ChunkerBegin(config_ok, ms) ==
    /\ run.processor = "ContentChunker"
    /\ run.pc = "begin"
    /\ run' = IF ~config_ok
              THEN [run EXCEPT !.pc = "done",
                               !.result = Some(ContentChunker(run.before, -1, ms))]
              ELSE IF SelectSeq(run.before.messages, NotSystem) = <<>>
              THEN [run EXCEPT !.pc = "done",
                               !.result = Some(ContentChunker(run.before, 0, ms))]
              ELSE [run EXCEPT !.pc = "loop"]
    /\ UNCHANGED not_run_vars

\* one pass of the retry loop
ChunkerAttempt(answer) ==
    /\ run.processor = "ContentChunker"
    /\ run.pc = "loop"
    /\ LET loop == Attempt(run.loop, answer)
       IN  run' = [run EXCEPT
                      !.loop = loop,
                      !.produced = @ \/ Produced(answer),
                      !.largest = IF Len(ChunksOf(answer)) > @
                                  THEN Len(ChunksOf(answer)) ELSE @,
                      !.pc = IF loop.next = "panic" THEN "panicked"
                             ELSE IF loop.next = "break" \/ loop.attempt >= max_retries
                             THEN "finish"
                             ELSE "loop"]
    /\ UNCHANGED not_run_vars

\* ContentChunker::process after its retry loop
ChunkerFinish(ms) ==
    /\ run.processor = "ContentChunker"
    /\ run.pc = "finish"
    /\ run' = [run EXCEPT !.pc = "done",
                          !.result = Some(ContentChunker(run.before,
                                              Len(run.loop.best_chunks), ms))]
    /\ UNCHANGED not_run_vars

\* ContextCleaner::process
CleanerRun ==
    /\ run.processor = "ContextCleaner"
    /\ run.pc = "begin"
    /\ run' = [run EXCEPT !.pc = "done",
                          !.result = Some(ContextCleaner(run.before, 1, 0))]
    /\ UNCHANGED not_run_vars

\* the packets ShortTermAssembler and ShortTermExpander are run on: the
\* user has spoken and the packet holds a short-term memory
InjectorPackets ==
    { add_short_term_memory(append_user_message(base, <<"u">>),
                            FrontendMemory(1, should_expand)) :
          base \in {NewPacket, set_system_message(NewPacket, SystemPrompt)},
          should_expand \in BOOLEAN }

Injectors == {"ShortTermAssembler", "ShortTermExpander"}

\* ShortTermAssembler::process or ShortTermExpander::process
InjectorRun(input) ==
    /\ run.processor \in Injectors
    /\ run.pc = "begin"
    /\ run' = [run EXCEPT !.pc = "injected",
                          !.result = Some(process(run.processor, run.before, input, 0))]
    /\ UNCHANGED not_run_vars

\* the next ContextCleaner::process on the packet: in the same turn, or in
\* the next one, after the reply and the next message of the user
CleanerNext(next_turn) ==
    /\ run.processor \in Injectors
    /\ run.pc = "injected"
    /\ run.result[1].ok
    /\ LET p == IF next_turn
                THEN append_user_message(
                         append_assistant_message(run.result[1].packet, <<"a">>),
                         <<"u", "2">>)
                ELSE run.result[1].packet
       IN  run' = [run EXCEPT !.pc = "cleaned",
                              !.cleaned = Some(ContextCleaner(p, 1, 0))]
    /\ UNCHANGED not_run_vars

InitRun ==
    /\ topic_type = [tp \in {"t1"} |-> "memory"]
    /\ pipeline = DefaultPipeline
    /\ NoRequests
    /\ NoPacketCalls
    /\ NoGraphCalls
    /\ NoQuery
    /\ sse = NoStream
    /\ NoVectors
    /\ NoPending
    /\ NoLocator
    /\ run \in {NewRun(name, p) : name \in {"ContentChunker", "ContextCleaner"},
                                  p \in RunPackets}
               \cup {NewRun(name, p) : name \in Injectors, p \in InjectorPackets}

NextRun ==
    \/ \E config_ok \in BOOLEAN, ms \in 0..MaxClock : ChunkerBegin(config_ok, ms)
    \/ \E answer \in Answers : ChunkerAttempt(answer)
    \/ \E ms \in 0..MaxClock : ChunkerFinish(ms)
    \/ CleanerRun
    \/ \E input \in 0..2 : InjectorRun(input)
    \/ \E next_turn \in BOOLEAN : CleanerNext(next_turn)

SpecRun == InitRun /\ [][NextRun]_vars

\* ------------------------------------------- a pending store and its callers
MaxPending == 4
MaxBatch == 3

PendingMemories == {"p1", "p2"}

\* a caller adds a memory.  (The methods take &mut self: a call runs alone.)
PendingAdd(memory) ==
    /\ Len(pending.added) < MaxPending
    /\ pending' = [pending EXCEPT !.queue = add(@, memory),
                                  !.added = Append(@, memory),
                                  !.ret = None]
    /\ UNCHANGED not_pending_vars

\* a caller takes a batch
PendingTakeBatch(count) ==
    /\ LET taken == take_batch(pending.queue, count)
       IN  pending' = [pending EXCEPT
                          !.queue = taken.queue,
                          !.taken = @ \o taken.batch,
                          !.ret = Some([op |-> "take_batch", count |-> count,
                                        before |-> pending.queue,
                                        batch |-> taken.batch])]
    /\ UNCHANGED not_pending_vars

\* a caller looks at the head of the queue
PendingPeek(count) ==
    /\ pending' = [pending EXCEPT
                      !.ret = Some([op |-> "peek", count |-> count,
                                    before |-> pending.queue,
                                    batch |-> peek(pending.queue, count)])]
    /\ UNCHANGED not_pending_vars

\* process_pending, under the write lock of the memory manager: the batch
\* is taken from the queue and each of its memories is stored in the
\* long-term store, a call that may fail
ProcessPending(count, failed) ==
    /\ LET total == Len(pending.queue)
           n     == IF count = None THEN total ELSE count[1]
           taken == take_batch(pending.queue, n)
       IN  pending' = [pending EXCEPT
                          !.queue = taken.queue,
                          !.taken = @ \o taken.batch,
                          !.ret = Some([op |-> "process_pending", count |-> n,
                                        before |-> pending.queue,
                                        batch |-> taken.batch,
                                        stored |-> Without(taken.batch, 1, failed)])]
    /\ UNCHANGED not_pending_vars

InitPending ==
    /\ topic_type = [tp \in {"t1"} |-> "memory"]
    /\ pipeline = DefaultPipeline
    /\ NoRequests
    /\ NoPacketCalls
    /\ NoGraphCalls
    /\ NoQuery
    /\ sse = NoStream
    /\ NoUnits

NextPending ==
    \/ \E memory \in PendingMemories : PendingAdd(memory)
    \/ \E count \in 0..MaxBatch : PendingTakeBatch(count)
    \/ \E count \in 0..MaxBatch : PendingPeek(count)
    \/ \E count \in {None} \cup {Some(n) : n \in 0..MaxBatch},
          failed \in SUBSET (1..MaxBatch) : ProcessPending(count, failed)

SpecPending == InitPending /\ [][NextPending]_vars

\* ------------------------------------------- queries on a single graph
QueryAnchors == {<<"m1">>, <<"m1", "m2">>}

QueryDirections == {"forward", "backward", "both"}

\* graph.query on the graph with a request of any direction
QueryDirected(anchors, limit, min_weight, direction) ==
    /\ LET request == [anchors |-> anchors, limit |-> limit,
                       min_weight |-> min_weight, direction |-> direction]
       IN  q' = [q EXCEPT !.request = Some(request),
                          !.single = Some(query(q.graphs["temporal"], request))]
    /\ UNCHANGED not_query_vars

InitSingle ==
    /\ topic_type = [tp \in {"t1"} |-> "memory"]
    /\ pipeline = DefaultPipeline
    /\ NoRequests
    /\ NoPacketCalls
    /\ NoGraphCalls
    /\ NoUnits
    /\ sse = NoStream
    /\ q \in [graphs : {[d \in {"temporal"} |-> GraphOf(e)] :
                            e \in EdgeLists(MaxQueryEdges)},
              request : {None}, single : {None}]

NextSingle ==
    \E anchors \in QueryAnchors, limit \in 0..MaxLimit,
       min_weight \in {Frac(0, 1), Frac(1, 1)}, direction \in QueryDirections :
        QueryDirected(anchors, limit, min_weight, direction)

SpecSingle == InitSingle /\ [][NextSingle]_vars

\* ------------------------------------------- a locator and its callers
MaxCallers == 2
MaxObjects == 3

Callers == 1..MaxCallers

ScopeIds == {<<"a">>, <<"a", ":", "b">>}

Scopes ==
    {LongTerm(id) : id \in ScopeIds} \cup {ShortTerm(<<"a">>, <<"b">>), Global}

Dimensions == {<<"temporal">>}

\* GraphLocator::get up to its first await after the cache lookup: a hit
\* returns the cached handle, a miss goes on to the file
GetLookup(c, scope, dimension) ==
    /\ loc.calls[c] = None
    /\ LET hit == cache_get(loc.cache, cache_key(scope, dimension))
       IN  IF hit # {}
           THEN loc' = [loc EXCEPT !.returned = @ \cup
                            {[scope |-> scope, dimension |-> dimension, obj |-> o] : o \in hit}]
           ELSE /\ Len(loc.objects)
                       + Cardinality({d \in Callers : loc.calls[d] # None}) < MaxObjects
                /\ loc' = [loc EXCEPT !.calls[c] =
                               Some([scope |-> scope, dimension |-> dimension])]
    /\ UNCHANGED not_locator_vars

\* GraphLocator::get from there to its end: the graph is loaded from its
\* file (which may fail) or made new, wrapped in a new Arc and inserted
GetInsert(c, loaded) ==
    /\ loc.calls[c] # None
    /\ LET call == loc.calls[c][1]
           file == [scope |-> call.scope, dimension |-> call.dimension]
           obj  == Len(loc.objects) + 1
       IN  IF file \in loc.files /\ ~loaded
           THEN loc' = [loc EXCEPT !.calls[c] = None]
           ELSE loc' = [loc EXCEPT
                           !.calls[c] = None,
                           !.objects = Append(@, file),
                           !.cache = cache_insert(@, cache_key(call.scope, call.dimension), obj),
                           !.returned = @ \cup
                               {[scope |-> call.scope, dimension |-> call.dimension,
                                 obj |-> obj]}]
    /\ UNCHANGED not_locator_vars

\* GraphLocator::delete_all.  (The removal from the cache and the removal of
\* the directory are taken as one step.)
DeleteAll(scope) ==
    /\ LET evicted == {e.obj : e \in WithPrefix(loc.cache, scope)}
       IN  loc' = [loc EXCEPT
                      !.cache = @ \ WithPrefix(loc.cache, scope),
                      !.files = {f \in @ : f.scope # scope},
                      !.returned = {r \in @ : r.obj \notin evicted},
                      !.last = Some([op |-> "delete_all", scope |-> scope,
                                     touched |-> evicted])]
    /\ UNCHANGED not_locator_vars

\* GraphLocator::flush: every cached graph under the prefix is saved to its
\* own file
Flush(scope) ==
    /\ LET saved == {e.obj : e \in WithPrefix(loc.cache, scope)}
       IN  loc' = [loc EXCEPT
                      !.files = @ \cup {loc.objects[o] : o \in saved},
                      !.last = Some([op |-> "flush", scope |-> scope,
                                     touched |-> saved])]
    /\ UNCHANGED not_locator_vars

InitLocator ==
    /\ topic_type = [tp \in {"t1"} |-> "memory"]
    /\ pipeline = DefaultPipeline
    /\ NoRequests
    /\ NoPacketCalls
    /\ NoGraphCalls
    /\ NoQuery
    /\ sse = NoStream
    /\ NoVectors
    /\ NoRun
    /\ NoPending
    /\ loc = [cache |-> {}, objects |-> <<>>, files |-> {},
              calls |-> [c \in Callers |-> None], returned |-> {}, last |-> None]

NextLocator ==
    \/ \E c \in Callers, scope \in Scopes, dimension \in Dimensions :
           GetLookup(c, scope, dimension)
    \/ \E c \in Callers, loaded \in BOOLEAN : GetInsert(c, loaded)
    \/ \E scope \in Scopes : DeleteAll(scope)
    \/ \E scope \in Scopes : Flush(scope)

SpecLocator == InitLocator /\ [][NextLocator]_vars

\* ------------------------------------------------------------- claims
\* the handler of a request is between loading the packet and persisting
\* it after end_turn
InTurn(r) ==
    \/ r.pc \in {"pre_save", "ai", "end_turn_save"}
    \/ r.pc = "dispatch" /\ r.timing # "background_process"

\* the detached background task of a request is running
BackgroundRunning(r) ==
    \/ r.pc = "bg_save"
    \/ r.pc = "dispatch" /\ r.timing = "background_process"

\* the handler of a request has persisted the packet after end_turn
Persisted(r) ==
    \/ r.pc \in {"history", "spawn"}
    \/ BackgroundRunning(r)
    \/ r.pc = "done" /\ ~r.ai_failed

\* the dispatch of phase tm has returned in task r
Returned(r, tm) == \E k \in 1..Len(r.returned) : r.returned[k].timing = tm

\* the calls of process made in the dispatch of phase tm, in order
Invocations(r, tm) == SelectSeq(r.trace, LAMBDA e : e.timing = tm)

\* C1: two turns on the same topic never overlap: while one is between
\* loading the packet and persisting it after end_turn, no other turn on
\* that topic is.
C1_TurnsDoNotOverlap ==
    \A t, u \in TurnIds :
        (t # u /\ InTurn(turn[t]) /\ InTurn(turn[u]))
            => turn[t].topic # turn[u].topic

\* C2: a save by the background task never shortens or replaces the
\* conversation_turns on disk: every record on disk before the save is
\* still there after it.
C2_BackgroundSaveKeepsTurns ==
    [][\A t \in TurnIds :
          BgSave(t) => StartsWith(disk'[turn[t].topic].conversation_turns,
                                  disk[turn[t].topic].conversation_turns)]_vars

\* C3: the conversation_turns on disk records the turns that committed on
\* the topic, in commit order, each exactly once.
C3_TurnsInCommitOrder ==
    \A tp \in Topics :
        disk[tp] # NoPacket =>
            [k \in 1..Len(disk[tp].conversation_turns) |->
                 disk[tp].conversation_turns[k].user_message]
              = [k \in 1..Len(commits[tp]) |-> UserText(commits[tp][k])]

\* C4: when a processor fails, the later entries of the phase still run,
\* the next one on the packet as the failed one left it, and dispatch
\* returns Ok.
C4_FailureIsolated ==
    \A t \in TurnIds :
        LET r == turn[t]
        IN  /\ \A k \in 1..Len(r.returned) : r.returned[k].result = "Ok"
            /\ \A i \in 1..Len(r.trace) :
                   LET e       == r.trace[i]
                       entries == Entries(pipeline, e.timing)
                   IN  ~e.ok =>
                         /\ (i < Len(r.trace) /\ r.trace[i + 1].timing = e.timing)
                                => r.trace[i + 1].given = e.left
                         /\ Returned(r, e.timing) =>
                                \A j \in (e.entry + 1)..Len(entries) :
                                    (/\ entries[j] \in Registered
                                     /\ requires_memory(entries[j])
                                            => is_memory_enabled(r.topic))
                                    => \E i2 \in (i + 1)..Len(r.trace) :
                                           /\ r.trace[i2].timing = e.timing
                                           /\ r.trace[i2].entry = j

\* C4 witness: a dispatch has returned in which a processor failed and a
\* later entry of the same phase ran
C4_Witness ==
    \E t \in TurnIds :
        \E i \in 1..Len(turn[t].trace) :
            /\ ~turn[t].trace[i].ok
            /\ Returned(turn[t], turn[t].trace[i].timing)
            /\ i < Len(turn[t].trace)
            /\ turn[t].trace[i + 1].timing = turn[t].trace[i].timing

\* C5: in a dispatch that returned, the calls of process are the entries
\* of the phase that are registered and eligible, in the configured order,
\* each once.
C5_InvocationOrder ==
    \A t \in TurnIds :
        \A tm \in PipelineTiming :
            Returned(turn[t], tm) =>
                LET called == Invocations(turn[t], tm)
                IN  [i \in 1..Len(called) |-> called[i].name]
                      = SelectSeq(Entries(pipeline, tm),
                                  LAMBDA n : /\ n \in Registered
                                             /\ requires_memory(n)
                                                    => is_memory_enabled(turn[t].topic))

\* C5 witness: a dispatch has returned that called two processors or more
\* and skipped an entry
C5_Witness ==
    \E t \in TurnIds :
        \E tm \in PipelineTiming :
            /\ Returned(turn[t], tm)
            /\ Len(Invocations(turn[t], tm)) >= 2
            /\ Len(Invocations(turn[t], tm)) < Len(Entries(pipeline, tm))

\* C6: when the provider call fails, the after_ai_response processors
\* still run, on a packet whose ai_response begins with the error prefix.
C6_FailureRecorded ==
    \A t \in TurnIds :
        LET r == turn[t]
        IN  r.ai_failed =>
              /\ r.pc = "done" => r.ran_after
              /\ (r.pc = "dispatch" /\ r.timing = "after_ai_response")
                     => /\ r.packet.ai_response # None
                        /\ StartsWith(r.packet.ai_response[1], <<ErrorPrefix>>)

\* C7: a turn in which the provider replied persists a packet whose
\* conversation_turns is one record longer than the one it loaded.
C7_TurnRecorded ==
    \A t \in TurnIds :
        (Persisted(turn[t]) /\ ~turn[t].ai_failed)
            => turn[t].saved_len = turn[t].base_len + 1

\* C8: a streamed turn whose client disconnects is not abandoned while its
\* after_ai_response dispatch is under way.
C8_PostProcessingCompletes ==
    \A t \in TurnIds :
        ~(/\ turn[t].pc = "dropped"
          /\ turn[t].timing = "after_ai_response"
          /\ ~turn[t].ran_after)

\* C9: while the background task of a request runs, the next request on
\* the topic can load the packet, and a turn under way on the topic can
\* take its next step.
C9_BackgroundDoesNotBlock ==
    \A t \in TurnIds :
        BackgroundRunning(turn[t]) =>
            /\ (t + 1 \in TurnIds /\ turn[t + 1].pc = "idle")
                   => ENABLED ClientLoad(t + 1, turn[t].topic, TRUE)
            /\ \A u \in TurnIds :
                   (InTurn(turn[u]) /\ turn[u].topic = turn[t].topic)
                       => ENABLED (\/ DispatchStep(u) \/ PreSave(u)
                                   \/ AiCall(u) \/ EndTurnSave(u))

\* C9 witness: the next turn on the topic waits for the provider while the
\* background task of the turn before has yet to save
C9_Witness ==
    \E t, u \in TurnIds :
        /\ u = t + 1
        /\ BackgroundRunning(turn[t])
        /\ turn[u].pc = "ai"
        /\ turn[u].topic = turn[t].topic

\* C10 as stated: after every processor of every phase, user_input is the
\* text of the request's user message.
C10_UserInputAtEveryPhase ==
    \A t \in TurnIds :
        \A i \in 1..Len(turn[t].trace) :
            turn[t].trace[i].left.user_input = turn[t].user_message

\* C10 amended: no processor alters user_input; at on_user_message,
\* before_ai_call and after_ai_response it is the text of the request's
\* user message, at background_process (after end_turn) it is empty.
C10_UserInputKept ==
    \A t \in TurnIds :
        \A i \in 1..Len(turn[t].trace) :
            LET e == turn[t].trace[i]
            IN  /\ e.left.user_input = e.given.user_input
                /\ e.left.user_input =
                       IF e.timing = "background_process" THEN <<>>
                       ELSE turn[t].user_message

\* C10 witness: ShortTermAssembler rebuilt the messages of a turn, and a
\* background processor ran after its end_turn
C10_Witness ==
    \E t \in TurnIds :
        /\ \E i \in 1..Len(turn[t].trace) :
               /\ turn[t].trace[i].name = "ShortTermAssembler"
               /\ turn[t].trace[i].ok
               /\ turn[t].trace[i].left.messages # turn[t].trace[i].given.messages
        /\ \E i \in 1..Len(turn[t].trace) :
               turn[t].trace[i].timing = "background_process"

\* C11: after end_turn, history_states has at most 2 frames and
\* current_states is empty.
C11_EndTurnBounds ==
    pkt_before # None =>
        /\ Len(pkt.history_states) <= 2
        /\ DOMAIN pkt.current_states = {}

\* C11 witness: end_turn was called with two frames in history_states and
\* states stored in the turn
C11_Witness ==
    /\ pkt_before # None
    /\ Len(pkt_before[1].history_states) = 2
    /\ DOMAIN pkt_before[1].current_states # {}

\* C12: end_turn leaves thinking_pool, short_term_memory and
\* conversation_turns as they were.
C12_EndTurnKeepsPools ==
    pkt_before # None =>
        /\ pkt.thinking_pool = pkt_before[1].thinking_pool
        /\ pkt.short_term_memory = pkt_before[1].short_term_memory
        /\ pkt.conversation_turns = pkt_before[1].conversation_turns

\* C12 witness: end_turn was called on a packet with an entry in each pool
\* and a turn record
C12_Witness ==
    /\ pkt_before # None
    /\ pkt_before[1].thinking_pool # <<>>
    /\ pkt_before[1].short_term_memory # <<>>
    /\ pkt_before[1].conversation_turns # <<>>

\* C13: after end_turn the front frame of history_states is the
\* current_states of the turn that ended, also when that turn stored
\* nothing: get_previous_state(name) is what name stored in that turn, and
\* nothing if it stored nothing.
C13_PreviousStateIsLastTurn ==
    pkt_before # None =>
        \A name \in StateNames :
            get_previous_state(pkt, name)
              = IF name \in DOMAIN pkt_before[1].current_states
                THEN Some(pkt_before[1].current_states[name])
                ELSE None

\* the characters of s, from index i on, that lie inside a thinking span:
\* between the opening tag and the closing tag of a match of
\* THINKING_TAG_REGEX
RECURSIVE InsideThinking(_, _)
InsideThinking(s, i) ==
    IF i > Len(s) THEN {}
    ELSE LET e == ThinkingTagMatchEnd(s, i)
         IN  IF e = 0 THEN InsideThinking(s, i + 1)
             ELSE LET gt    == FindChar(s, i + Len(ThinkOpen), ">")
                      close == IF SubSeq(s, e - Len(ThinkClose) + 1, e) = ThinkClose
                               THEN e - Len(ThinkClose) + 1
                               ELSE e - Len(ThinkingClose) + 1
                  IN  ((gt + 1)..(close - 1)) \cup InsideThinking(s, e + 1)

\* C14: whatever the provider output and the chunks it comes in, no
\* character inside a thinking span is forwarded to the client.
C14_ThinkingNeverForwarded ==
    sse.sent \cap InsideThinking(sse.output, 1) = {}

\* C15: at the end of a streamed turn the assistant text in the packet
\* (ai_response and the new turn record) is the concatenation of the
\* chunks forwarded to the client.
C15_PacketIsForwardedText ==
    (sse.ended /\ sse.output # <<>>) =>
        /\ sse.packet.ai_response = Some(Concat(sse.forwarded))
        /\ sse.packet.conversation_turns[Len(sse.packet.conversation_turns)]
               .assistant_message = Concat(sse.forwarded)

\* ---- the relation graph

\* how many times x is in list
Count(list, x) == Cardinality({i \in 1..Len(list) : list[i] = x})

\* the edge list as (source, target, weight) entries
EdgeEntries(g) ==
    [i \in 1..Len(g.edges) |->
        <<g.edges[i].source, g.edges[i].target, g.edges[i].weight>>]

\* C16: in every reachable state of a graph, after any sequence of add_node,
\* remove_node, add_edge, add_edges, remove_edge and insert_temporal_node,
\* the source and the target of every edge are ids of nodes of the graph.
C16_EdgesJoinNodes ==
    \A i \in 1..Len(graph.edges) :
        /\ graph.edges[i].source \in IdsOf(graph)
        /\ graph.edges[i].target \in IdsOf(graph)

\* C17: whenever the adjacency cache is present, its forward and backward
\* entries are exactly the (source, target, weight) entries of the edge
\* list, each as many times as the edge list has it: none extra, none
\* missing.
C17_CacheIsEdgeList ==
    graph.adjacency_cache # None =>
        LET index == graph.adjacency_cache[1]
            entries == EdgeEntries(graph)
        IN  /\ \A s \in DOMAIN index.forward :
                  \A i \in 1..Len(index.forward[s]) :
                      LET entry == index.forward[s][i]
                      IN  Count(index.forward[s], entry)
                              = Count(entries, <<s, entry[1], entry[2]>>)
            /\ \A t \in DOMAIN index.backward :
                  \A i \in 1..Len(index.backward[t]) :
                      LET entry == index.backward[t][i]
                      IN  Count(index.backward[t], entry)
                              = Count(entries, <<entry[1], t, entry[2]>>)
            /\ \A i \in 1..Len(graph.edges) :
                  LET e == graph.edges[i]
                  IN  /\ e.source \in DOMAIN index.forward
                      /\ Count(index.forward[e.source], <<e.target, e.weight>>)
                             = Count(entries, entries[i])
                      /\ e.target \in DOMAIN index.backward
                      /\ Count(index.backward[e.target], <<e.source, e.weight>>)
                             = Count(entries, entries[i])

\* the nodes of g that have a timestamp
Timed(g) == {g.nodes[i] : i \in {j \in 1..Len(g.nodes) :
                                    g.nodes[j].timestamp # None}}
\* the day of a node that has a timestamp
Day(node) == node.timestamp[1]
\* the node of g with this id (ids are unique in a graph of memories)
NodeOf(g, id) == CHOOSE n \in {g.nodes[i] : i \in 1..Len(g.nodes)} : n.id = id
HasEdge(g, source, target) ==
    \E i \in 1..Len(g.edges) :
        g.edges[i].source = source /\ g.edges[i].target = target

\* C18: after any sequence of insert_temporal_node on an empty graph, with
\* any timestamps in any order, the edges are one chain in timestamp order:
\* every node has at most one incoming and at most one outgoing edge, and
\* every edge runs from a node to the node next after it in timestamp order
\* (a later node, with no node strictly between the two).
C18_TemporalChain ==
    /\ \A id \in IdsOf(graph) :
          /\ Cardinality({i \in 1..Len(graph.edges) :
                              graph.edges[i].target = id}) <= 1
          /\ Cardinality({i \in 1..Len(graph.edges) :
                              graph.edges[i].source = id}) <= 1
    /\ \A i \in 1..Len(graph.edges) :
          LET from == NodeOf(graph, graph.edges[i].source)
              to == NodeOf(graph, graph.edges[i].target)
          IN  /\ Day(from) < Day(to)
              /\ ~ \E m \in Timed(graph) : Day(from) < Day(m) /\ Day(m) < Day(to)

\* P is a nearest earlier neighbour of N in g: earlier than N, and no node is
\* strictly between the two
NearestBefore(g, P, N) ==
    /\ Day(P) < Day(N)
    /\ ~ \E m \in Timed(g) : Day(P) < Day(m) /\ Day(m) < Day(N)

\* C19: after insert_temporal_node(N), for nodes P and S with
\* P.t < N.t < S.t that are N's nearest neighbours in time, the graph has
\* the edges P -> N and N -> S and no edge P -> S.
C19_InsertedBetweenNeighbours ==
    (graph_call.op = "insert_temporal_node" /\ graph_call.ret.ok) =>
        LET N == graph_call.arg
        IN  \A P \in Timed(graph), S \in Timed(graph) :
                (NearestBefore(graph, P, N) /\ NearestBefore(graph, N, S)) =>
                    /\ HasEdge(graph, P.id, N.id)
                    /\ HasEdge(graph, N.id, S.id)
                    /\ ~HasEdge(graph, P.id, S.id)

\* C20: when insert_temporal_node is given a node without
\* features.timestamp, the caller gets the MissingFeature error and the
\* graph (nodes, edges, caches, metadata) is as it was before the call.
C20_FailedInsertChangesNothing ==
    (graph_call.op = "insert_temporal_node"
        /\ graph_call.arg.timestamp = None) =>
        /\ graph_call.ret = MissingFeature
        /\ graph = graph_call.before[1]

\* a node without a timestamp was refused by a graph that has nodes, edges
\* and caches
C20_Witness ==
    /\ graph_call.op = "insert_temporal_node"
    /\ graph_call.arg.timestamp = None
    /\ graph_call.ret = MissingFeature
    /\ graph.edges # <<>>
    /\ graph.adjacency_cache # None
    /\ graph.metadata.updated_at > 0

\* ---- graph queries

\* the ids of a result list, in its order
IdsInOrder(nodes) == [i \in 1..Len(nodes) |-> nodes[i].node_id]

\* C21: a multi-graph query with the single dimension "temporal" of weight w
\* returns the same node ids in the same order as the single-graph query on
\* that graph with the same anchors, limit and min_weight, and every
\* total_score is w times the single-graph weight.
C21_OneDimensionIsSingleQuery ==
    (q.single # None /\ q.multi # None
        /\ DOMAIN q.dimension_weights = {"temporal"}) =>
        /\ IdsInOrder(q.multi[1]) = IdsInOrder(q.single[1])
        /\ \A i \in 1..Len(q.multi[1]) :
              FracEq(q.multi[1][i].total_score,
                     FracMul(q.dimension_weights["temporal"],
                             q.single[1][i].weight))

\* the weight of the strongest edge of g between id and an anchor, 0 if none
StrongestEdge(g, anchors, id) ==
    LET weights == {g.edges[i].weight : i \in {j \in 1..Len(g.edges) :
            \E a \in 1..Len(anchors) :
                \/ g.edges[j].source = anchors[a] /\ g.edges[j].target = id
                \/ g.edges[j].target = anchors[a] /\ g.edges[j].source = id}}
    IN  IF weights = {} THEN Frac(0, 1)
        ELSE CHOOSE w \in weights : \A v \in weights : ~FracGt(v, w)

\* the sum over the dimensions dims of dim_weight times the strongest edge
RECURSIVE ExpectedScore(_, _)
ExpectedScore(id, dims) ==
    IF dims = {} THEN Frac(0, 1)
    ELSE LET d == CHOOSE d \in dims : TRUE
         IN  FracAdd(FracMul(q.dimension_weights[d],
                             StrongestEdge(q.graphs[d], q.anchors, id)),
                     ExpectedScore(id, dims \ {d}))

\* C22: for every node a multi-graph query returns, total_score is the sum
\* over the requested dimensions of weight > 0 of dim_weight times the weight
\* of the node's strongest edge to an anchor in that dimension's graph.
C22_TotalScoreIsWeightedSum ==
    q.multi # None =>
        \A i \in 1..Len(q.multi[1]) :
            FracEq(q.multi[1][i].total_score,
                   ExpectedScore(q.multi[1][i].node_id,
                       {d \in DOMAIN q.dimension_weights :
                           FracGt(q.dimension_weights[d], Frac(0, 1))}))

\* ---- storage

\* C23: when the packet file of a topic exists but does not parse, the load
\* failure is a hard error for the caller: the request that finds it does
\* not go on as a turn with a newly created packet.
C23_CorruptFileIsAnError ==
    [][\A t \in TurnIds :
          (/\ turn[t].pc = "idle"
           /\ turn'[t].pc # "idle"
           /\ disk[turn'[t].topic] = CorruptFile)
              => ~InTurn(turn'[t])]_vars

\* ---- the vector file

\* C24: no two read-modify-write cycles on the short_term_vectors.json of a
\* topic overlap: at any time at most one of its writers is between its
\* read of the file and its write.
C24_CyclesDoNotOverlap ==
    Cardinality({w \in Writers : vec.cycle[w] # None}) <= 1

\* C25: ShortTermVectorizer run a second time on the same packet and on the
\* file its first run left, with the same embeddings, leaves the vectors
\* and metadata.dimension of the file as the first run left them.
C25_SecondRunChangesNothing ==
    vec.second # None =>
        /\ vec.second[1].vectors = vec.first[1].file.vectors
        /\ vec.second[1].metadata.dimension = vec.first[1].file.metadata.dimension

\* ---- single processors
IsSystem(m) == m.role = "system"

\* the run of ContentChunker returned Ok after it made memories of chunks
ChunkedOk ==
    /\ run.processor = "ContentChunker"
    /\ run.pc = "done"
    /\ run.result[1].ok
    /\ "ContentChunker" \in DOMAIN run.result[1].packet.current_states
    /\ run.result[1].packet.current_states["ContentChunker"] = "chunked"

\* C26: when ContentChunker returns success after producing chunks, the
\* messages of the packet are system messages only, and at most one,
\* whatever they were before the run.
C26_OnlySystemMessageLeft ==
    ChunkedOk =>
        /\ \A i \in 1..Len(run.result[1].packet.messages) :
               IsSystem(run.result[1].packet.messages[i])
        /\ Len(run.result[1].packet.messages) <= 1

\* a successful run on a packet with two system messages and a conversation
C26_Witness ==
    /\ ChunkedOk
    /\ Len(SelectSeq(run.before.messages, IsSystem)) >= 2
    /\ Len(run.result[1].packet.messages) = 1

\* C27: a run of ContentChunker makes at most 3 model attempts, and a run
\* that made attempts reports failure exactly when none of them gave a
\* chunk, by full or by partial parsing.
C27_FailureIffNoChunk ==
    run.processor = "ContentChunker" =>
        /\ run.loop.attempt <= max_retries
        /\ (run.pc \in {"done", "panicked"} /\ run.loop.attempt > 0) =>
               ((run.pc = "done" /\ ~run.result[1].ok) <=> ~run.produced)

\* the run of ContextCleaner has ended
Cleaned == run.processor = "ContextCleaner" /\ run.pc = "done"

InjectedPrefix(msg) ==
    \/ StartsWith(msg.content, <<MemoryTag, InjectWord>>)
    \/ StartsWith(msg.content, <<MemoryTag, ExpandWord>>)

\* C28 as stated: after ContextCleaner has run, no message of the packet,
\* whatever its role, begins with one of the two prefixes of injected
\* short-term memory messages.
C28_NoMessageWithPrefix ==
    Cleaned =>
        \A i \in 1..Len(run.result[1].packet.messages) :
            ~InjectedPrefix(run.result[1].packet.messages[i])

\* C28 amended: after ContextCleaner has run, no user message of the packet
\* begins with one of the two prefixes, and the other messages are the
\* ones the packet had, in their order.
C28_NoUserMessageWithPrefix ==
    Cleaned =>
        /\ \A i \in 1..Len(run.result[1].packet.messages) :
               run.result[1].packet.messages[i].role = "user"
                   => ~InjectedPrefix(run.result[1].packet.messages[i])
        /\ run.result[1].packet.messages = SelectSeq(run.before.messages, ShouldKeep)

\* a run that removed an injected message and an expanded one
C28_Witness ==
    /\ Cleaned
    /\ \E i, j \in 1..Len(run.before.messages) :
           /\ run.before.messages[i] = ChatMessage("user", <<MemoryTag, InjectWord, "m">>)
           /\ run.before.messages[j] = ChatMessage("user", <<MemoryTag, ExpandWord, "m">>)
    /\ Len(run.result[1].packet.messages) = Len(run.before.messages) - 2

\* ---- the pending store

\* C29: in any interleaving of add and take_batch, the entries leave the
\* queue in the order they were added, each at most once: what was taken so
\* far followed by what is queued is what was added, and take_batch(n)
\* returns the min(n, len) oldest entries and leaves the others.
C29_TakeBatchIsFifo ==
    /\ pending.taken \o pending.queue = pending.added
    /\ (pending.ret # None /\ pending.ret[1].op = "take_batch") =>
           LET call == pending.ret[1]
               n    == IF call.count < Len(call.before) THEN call.count
                       ELSE Len(call.before)
           IN  /\ call.batch = SubSeq(call.before, 1, n)
               /\ pending.queue = SubSeq(call.before, n + 1, Len(call.before))

\* a batch of two different entries taken from a longer queue, after an
\* earlier batch
C29_Witness ==
    /\ pending.ret # None
    /\ pending.ret[1].op = "take_batch"
    /\ pending.ret[1].count = 2
    /\ Len(pending.ret[1].before) > 2
    /\ pending.ret[1].batch[1] # pending.ret[1].batch[2]
    /\ Len(pending.taken) > 2

\* ---- processors that require memory

\* C30: a processor whose requires_memory is true is never run on a topic
\* that is not memory-enabled: no call of process in a turn on such a topic
\* is a call of such a processor.
C30_MemoryProcessorsNeedMemoryTopic ==
    \A t \in TurnIds :
        \A k \in 1..Len(turn[t].trace) :
            requires_memory(turn[t].trace[k].name)
                => topic_type[turn[t].topic] = "memory"

\* a dispatch on a normal topic has returned without a call of process,
\* though the phase has a registered processor that requires memory
C30_Witness ==
    \E t \in TurnIds :
        \E tm \in PipelineTiming :
            /\ turn[t].topic # ""
            /\ topic_type[turn[t].topic] = "normal"
            /\ Returned(turn[t], tm)
            /\ \E i \in 1..Len(Entries(pipeline, tm)) :
                   /\ Entries(pipeline, tm)[i] \in Registered
                   /\ requires_memory(Entries(pipeline, tm)[i])
            /\ Invocations(turn[t], tm) = <<>>

\* ---- the locator

\* C31: all calls of get for the same scope and dimension, concurrent
\* first calls included, return handles to one and the same graph object
\* (as long as it is not evicted).
C31_OneObjectPerGraph ==
    \A r1, r2 \in loc.returned :
        (r1.scope = r2.scope /\ r1.dimension = r2.dimension) => r1.obj = r2.obj

\* C40: delete_all(scope) and flush(scope) touch only the cached graphs of
\* that scope: every graph the last such call evicted or wrote was made
\* for the scope of the call.
C40_OnlyTheScopeIsTouched ==
    loc.last # None =>
        \A o \in loc.last[1].touched : loc.objects[o].scope = loc.last[1].scope

\* ---- the default pipeline

\* C32: the default pipeline configuration has exactly two on_user_message
\* entries, exactly three after_ai_response entries and no before_ai_call
\* entry (what test_default_config asserts).
C32_DefaultConfigSizes ==
    pipeline = DefaultPipeline =>
        /\ Len(pipeline.on_user_message) = 2
        /\ Len(pipeline.after_ai_response) = 3
        /\ pipeline.before_ai_call = <<>>

\* C33: the chunk set ContentChunker commits is the largest chunk set any
\* attempt of the run produced, by a full parse or by partial salvage.
C33_LargestChunkSetIsCommitted ==
    (run.processor = "ContentChunker" /\ run.pc = "finish" /\ run.largest > 0) =>
        Len(run.loop.best_chunks) = run.largest

\* ---- the vector file after a run

\* C34: after a run of ShortTermVectorizer the vector file holds exactly
\* one record for every memory of the packet that was embedded, and no two
\* records with the same id.
C34_OneRecordPerMemory ==
    vec.first # None =>
        LET f       == vec.first[1].file
            ms      == vec.first[1].memories
            with(id) == {i \in 1..Len(f.vectors) : f.vectors[i].id = id}
        IN  /\ \A i \in 1..Len(f.vectors) : Cardinality(with(f.vectors[i].id)) = 1
            /\ \A k \in (1..Len(ms)) \ vec.first[1].failed :
                   Cardinality(with(ms[k].id)) = 1

\* ---- queries on a single graph

\* the weights of the edges that join the node to an anchor of the request
\* in its direction with a weight of min_weight or more
QualifyingWeights(g, request, node_id) ==
    {g.edges[k].weight : k \in {k \in 1..Len(g.edges) :
        /\ ~FracGt(request.min_weight, g.edges[k].weight)
        /\ \E a \in 1..Len(request.anchors) :
              \/ /\ request.direction \in {"forward", "both"}
                 /\ g.edges[k].source = request.anchors[a]
                 /\ g.edges[k].target = node_id
              \/ /\ request.direction \in {"backward", "both"}
                 /\ g.edges[k].target = request.anchors[a]
                 /\ g.edges[k].source = node_id}}

\* the nodes a query may return: not anchors, joined to an anchor
Candidates(g, request) ==
    {id \in {g.edges[k].source : k \in 1..Len(g.edges)}
              \cup {g.edges[k].target : k \in 1..Len(g.edges)} :
        /\ \A a \in 1..Len(request.anchors) : request.anchors[a] # id
        /\ QualifyingWeights(g, request, id) # {}}

\* the weight no qualifying edge of the node exceeds
IsMaxWeight(g, request, node_id, weight) ==
    /\ \E w \in QualifyingWeights(g, request, node_id) : FracEq(w, weight)
    /\ \A w \in QualifyingWeights(g, request, node_id) : ~FracGt(w, weight)

\* C35: a single-graph query returns the top-limit ranking of the non-anchor
\* nodes joined to an anchor by an edge in the requested direction of weight
\* min_weight or more: each at most once, with the greatest weight of its
\* qualifying edges, in non-increasing order of weight, no anchor among
\* them, as many as limit allows and none left out that weighs more than
\* one returned.
C35_TopLimitRanking ==
    q.single # None =>
        LET g       == q.graphs["temporal"]
            request == q.request[1]
            nodes   == q.single[1]
            ids     == {nodes[i].node_id : i \in 1..Len(nodes)}
            cands   == Candidates(g, request)
        IN  /\ ids \subseteq cands
            /\ \A i, j \in 1..Len(nodes) : nodes[i].node_id = nodes[j].node_id => i = j
            /\ \A i \in 1..Len(nodes) :
                   IsMaxWeight(g, request, nodes[i].node_id, nodes[i].weight)
            /\ \A i \in 1..(Len(nodes) - 1) : ~FracGt(nodes[i + 1].weight, nodes[i].weight)
            /\ Len(nodes) = IF Cardinality(cands) < request.limit
                            THEN Cardinality(cands) ELSE request.limit
            /\ \A id \in cands \ ids : \A i \in 1..Len(nodes) :
                   \A w \in QualifyingWeights(g, request, id) :
                       ~FracGt(w, nodes[i].weight)

\* a query returned a node that two qualifying edges of different weight
\* join to the anchors, and left another out for the limit
C35_Witness ==
    /\ q.single # None
    /\ q.single[1] # <<>>
    /\ Cardinality(Candidates(q.graphs["temporal"], q.request[1])) > q.request[1].limit
    /\ \E i \in 1..Len(q.single[1]) :
          Cardinality(QualifyingWeights(q.graphs["temporal"], q.request[1],
                                        q.single[1][i].node_id)) > 1

\* ---- the stream filter

\* the characters of s, from index i on, that belong to a thinking span:
\* a match of THINKING_TAG_REGEX, its tags included
RECURSIVE ThinkingSpans(_, _)
ThinkingSpans(s, i) ==
    IF i > Len(s) THEN {}
    ELSE LET e == ThinkingTagMatchEnd(s, i)
         IN  IF e = 0 THEN ThinkingSpans(s, i + 1)
             ELSE (i..e) \cup ThinkingSpans(s, e + 1)

\* C36: every character the provider emits outside a thinking span is
\* forwarded to the client exactly once and in the order of arrival,
\* however the output is cut into chunks and wherever "<" stands in it: when
\* the stream has ended on the whole output, the chunks forwarded spell the
\* output without its thinking spans.
C36_OutsideTextIsForwarded ==
    (sse.ended /\ sse.output # <<>> /\ sse.pos > Len(sse.output)) =>
        Concat(sse.forwarded) = Without(sse.output, 1, ThinkingSpans(sse.output, 1))

\* ---- injected messages

\* the messages a run of ShortTermAssembler or ShortTermExpander put into
\* the packet
InjectedMessages ==
    {run.result[1].packet.messages[i] : i \in 1..Len(run.result[1].packet.messages)}
        \ {run.before.messages[i] : i \in 1..Len(run.before.messages)}

\* C37: every message that ShortTermAssembler or ShortTermExpander injects
\* into the messages of the packet is removed by the next run of
\* ContextCleaner.
C37_InjectedIsCleaned ==
    (run.processor \in Injectors /\ run.pc = "cleaned") =>
        \A i \in 1..Len(run.cleaned[1].packet.messages) :
            run.cleaned[1].packet.messages[i] \notin InjectedMessages

\* ---- promotion of pending memories

\* how many times x stands in the list
Occurrences(x, list) == Cardinality({i \in 1..Len(list) : list[i] = x})

\* C38: a pending memory that the promotion takes from the queue is stored
\* in the long-term store or stays queued: every memory queued before
\* process_pending is, after it, in the store or in the queue.
C38_PromotedOrStillQueued ==
    (pending.ret # None /\ pending.ret[1].op = "process_pending") =>
        \A m \in PendingMemories :
            Occurrences(m, pending.ret[1].before)
                <= Occurrences(m, pending.ret[1].stored) + Occurrences(m, pending.queue)

\* ---- history.json and the packet

\* the messages that history.json holds when it describes these turns
RECURSIVE HistoryOf(_)
HistoryOf(turns) ==
    IF turns = <<>> THEN <<>>
    ELSE <<ChatMessage("user", Head(turns).user_message),
           ChatMessage("assistant", Head(turns).assistant_message)>>
             \o HistoryOf(Tail(turns))

\* C39: after every committed turn, history.json and the conversation_turns
\* of the packet describe the same turns: once the turns that persisted
\* their packet have appended to the history, history.json holds one user
\* message and one assistant message per record of conversation_turns, in
\* order and with the texts of the record.
C39_HistoryMatchesTurns ==
    \A tp \in Topics :
        (/\ disk[tp] # NoPacket
         /\ commits[tp] # <<>>
         /\ \A t \in TurnIds : turn[t].pc \in {"idle", "done", "dropped"})
            => history[tp] = HistoryOf(disk[tp].conversation_turns)

====
